---- MODULE Spec2Model ----
(***************************************************************************)
(* PTY watchdog of honk: the scanner's leak heuristic, the safety          *)
(* classifier, the cleanup actor and the background daemon (PID-file       *)
(* lifecycle, scan cycle, cache file written through a temp file and a     *)
(* rename).                                                                *)
(*                                                                         *)
(* Conventions.  An optional value (Python's None or a value) is a         *)
(* sequence of length 0 or 1.  A string the code inspects letter by letter *)
(* (a command) is a sequence of one-letter strings.  A file descriptor      *)
(* names the file its process opened, not the path: after a rename the     *)
(* descriptor writes into the file under its new name.                     *)
(***************************************************************************)
EXTENDS Integers, Sequences, FiniteSets, TLC

(***************************************************************************)
(* Strings                                                                 *)
(***************************************************************************)

\* str.lower() on one letter (ASCII letters; every other letter is kept).
UpperToLower ==
    ("A" :> "a") @@ ("B" :> "b") @@ ("C" :> "c") @@ ("D" :> "d") @@
    ("E" :> "e") @@ ("F" :> "f") @@ ("G" :> "g") @@ ("H" :> "h") @@
    ("I" :> "i") @@ ("J" :> "j") @@ ("K" :> "k") @@ ("L" :> "l") @@
    ("M" :> "m") @@ ("N" :> "n") @@ ("O" :> "o") @@ ("P" :> "p") @@
    ("Q" :> "q") @@ ("R" :> "r") @@ ("S" :> "s") @@ ("T" :> "t") @@
    ("U" :> "u") @@ ("V" :> "v") @@ ("W" :> "w") @@ ("X" :> "x") @@
    ("Y" :> "y") @@ ("Z" :> "z")

LowerChar(ch) ==
    IF ch \in DOMAIN UpperToLower THEN UpperToLower[ch] ELSE ch

\* str.lower()
Lower(s) ==
    [i \in 1..Len(s) |-> LowerChar(s[i])]

\* Python's `sub in s` on strings
Contains(s, sub) ==
    \E i \in 0..(Len(s) - Len(sub)) : SubSeq(s, i + 1, i + Len(sub)) = sub

str_copilot ==
    <<"c", "o", "p", "i", "l", "o", "t">>

str_node ==
    <<"n", "o", "d", "e">>

str_agent ==
    <<"a", "g", "e", "n", "t">>

\* Commands the enumeration tool may report (a None command is <<>>, the
\* command "bash" is << <<"b","a","s","h">> >>).
CmdNone ==
    <<>>

CmdEmpty ==
    << <<>> >>

CmdBash ==
    << <<"b", "a", "s", "h">> >>

CmdPython ==
    << <<"p", "y", "t", "h", "o", "n">> >>

CmdCopilot ==
    << <<"c", "o", "p", "i", "l", "o", "t">> >>

CmdNodeCopilot ==
    << <<"N", "o", "d", "e", " ", "C", "o", "p", "i", "l", "o", "t">> >>

\* Python truthiness of `proc.command`: None and "" are falsy.
Truthy(opt) ==
    opt # <<>> /\ opt[1] # <<>>

(***************************************************************************)
(* pty_scanner.py: PTYProcess                                              *)
(***************************************************************************)

\* The PTY device paths /dev/ttys001 .. /dev/ttys00n, in encounter order.
Ptys(n) ==
    [i \in 1..n |-> i]

PTYProcess(pid, command, ptys, parent_pid) ==
    [pid |-> pid, command |-> command, ptys |-> ptys, parent_pid |-> parent_pid]

pty_count(proc) ==
    Len(proc.ptys)

(***************************************************************************)
(* What the operating system answers about one pid when psutil asks.       *)
(*   term     "tty" (terminal() is a path), "none" (terminal() is None),   *)
(*            "nosuch" / "denied" (psutil.NoSuchProcess / AccessDenied)    *)
(*   status   "zombie", "running", "nosuch", "denied"                      *)
(*   ppid     <<parent pid>>, or <<>> when the lookup raises               *)
(*   owner    <<username, name>>, or <<>> when the lookup raises           *)
(***************************************************************************)
LookupErrors ==
    {"nosuch", "denied"}

OsFacts(term, status, ppid, owner) ==
    [term |-> term, status |-> status, ppid |-> ppid, owner |-> owner]

(***************************************************************************)
(* safety.py                                                               *)
(***************************************************************************)

\* has_controlling_terminal(pid)
has_controlling_terminal(f) ==
    IF f.term \in LookupErrors THEN TRUE ELSE f.term # "none"

\* is_zombie(pid)
is_zombie(f) ==
    IF f.status \in LookupErrors THEN FALSE ELSE f.status = "zombie"

\* is_orphan(pid)
is_orphan(f) ==
    IF f.ppid = <<>> THEN FALSE ELSE f.ppid[1] = 1

\* psutil.Process(our_pid).parents(): the chain of parents up to the root.
\* parentOf maps a pid to <<its parent>>, or to <<>> at the root.
RECURSIVE Parents(_, _, _)
Parents(parentOf, p, fuel) ==
    IF fuel = 0 \/ p \notin DOMAIN parentOf \/ parentOf[p] = <<>>
    THEN {}
    ELSE {parentOf[p][1]} \cup Parents(parentOf, parentOf[p][1], fuel - 1)

\* A tree check that looks at the caller and its direct parent only, and
\* answers "not in the tree" when the lookup fails.
is_in_own_tree_parent_only(pid, our_pid, parentOf, treeLookup) ==
    \/ pid = our_pid
    \/ /\ treeLookup \notin LookupErrors
       /\ parentOf[our_pid] # <<>>
       /\ parentOf[our_pid][1] = pid

\* is_in_own_tree(pid); treeLookup is "ok" or the error psutil raises for the
\* caller's own process.
is_in_own_tree(pid, our_pid, parentOf, treeLookup) ==
    IF pid = our_pid THEN TRUE
    ELSE IF treeLookup \in LookupErrors THEN TRUE
    ELSE pid \in Parents(parentOf, our_pid, Cardinality(DOMAIN parentOf))

CRITICAL_SYSTEM_PROCESSES ==
    {"launchd", "kernel_task", "com.apple.xpc.launchd", "syslogd", "notifyd",
     "diskarbitrationd", "configd", "mDNSResponder", "SecurityServer",
     "WindowServer", "loginwindow", "systemstats", "UserEventAgent"}

\* proc.name().lower() for the process names of the model.
NameLower ==
    ("launchd" :> "launchd") @@ ("Launchd" :> "launchd") @@
    ("syslogd" :> "syslogd") @@
    ("WindowServer" :> "windowserver") @@
    ("mDNSResponder" :> "mdnsresponder") @@
    ("bash" :> "bash") @@
    ("kernel_task" :> "kernel_task") @@
    ("com.apple.xpc.launchd" :> "com.apple.xpc.launchd") @@
    ("notifyd" :> "notifyd") @@
    ("diskarbitrationd" :> "diskarbitrationd") @@
    ("configd" :> "configd") @@
    ("SecurityServer" :> "securityserver") @@
    ("loginwindow" :> "loginwindow") @@
    ("systemstats" :> "systemstats") @@
    ("UserEventAgent" :> "usereventagent")

LowPidCutoff ==
    100

\* is_system_critical(pid)
is_system_critical(pid, f) ==
    IF pid < LowPidCutoff THEN TRUE
    ELSE IF f.owner = <<>> THEN TRUE
    ELSE f.owner[1] = "root" /\ NameLower[f.owner[2]] \in CRITICAL_SYSTEM_PROCESSES

CopilotLimit ==
    10

GeneralMultiple ==
    2

\* A classifier whose orphan rule asks for one PTY or more instead of more
\* than one.
is_safe_to_kill_orphan_one(pid, proc, threshold, f, our_pid, parentOf, treeLookup) ==
    IF pid = our_pid THEN [safe |-> FALSE, reason |-> "own process"]
    ELSE IF is_in_own_tree(pid, our_pid, parentOf, treeLookup)
    THEN [safe |-> FALSE, reason |-> "ancestor chain"]
    ELSE IF has_controlling_terminal(f)
    THEN [safe |-> FALSE, reason |-> "controlling terminal"]
    ELSE IF is_system_critical(pid, f)
    THEN [safe |-> FALSE, reason |-> "critical system process"]
    ELSE IF is_zombie(f) THEN [safe |-> TRUE, reason |-> "zombie"]
    ELSE IF is_orphan(f) /\ pty_count(proc) >= 1
    THEN [safe |-> TRUE, reason |-> "orphan"]
    ELSE LET cmd == IF proc.command = <<>> THEN <<>> ELSE Lower(proc.command[1])
         IN  IF Contains(cmd, str_copilot)
             THEN IF pty_count(proc) > CopilotLimit
                  THEN [safe |-> TRUE, reason |-> "copilot excessive"]
                  ELSE [safe |-> FALSE, reason |-> "within normal range"]
             ELSE IF pty_count(proc) > threshold * GeneralMultiple
             THEN [safe |-> TRUE, reason |-> "heavy user"]
             ELSE [safe |-> FALSE, reason |-> "below threshold"]

\* is_safe_to_kill(pid, proc, threshold): the verdict and the reason's kind.
is_safe_to_kill(pid, proc, threshold, f, our_pid, parentOf, treeLookup) ==
    IF pid = our_pid THEN [safe |-> FALSE, reason |-> "own process"]
    ELSE IF is_in_own_tree(pid, our_pid, parentOf, treeLookup)
    THEN [safe |-> FALSE, reason |-> "ancestor chain"]
    ELSE IF has_controlling_terminal(f)
    THEN [safe |-> FALSE, reason |-> "controlling terminal"]
    ELSE IF is_system_critical(pid, f)
    THEN [safe |-> FALSE, reason |-> "critical system process"]
    ELSE IF is_zombie(f) THEN [safe |-> TRUE, reason |-> "zombie"]
    ELSE IF is_orphan(f) /\ pty_count(proc) > 1
    THEN [safe |-> TRUE, reason |-> "orphan"]
    ELSE LET cmd == IF proc.command = <<>> THEN <<>> ELSE Lower(proc.command[1])
         IN  IF Contains(cmd, str_copilot)
             THEN IF pty_count(proc) > CopilotLimit
                  THEN [safe |-> TRUE, reason |-> "copilot excessive"]
                  ELSE [safe |-> FALSE, reason |-> "within normal range"]
             ELSE IF pty_count(proc) > threshold * GeneralMultiple
             THEN [safe |-> TRUE, reason |-> "heavy user"]
             ELSE [safe |-> FALSE, reason |-> "below threshold"]

(***************************************************************************)
(* pty_scanner.py: queries and the cleanup actor                           *)
(***************************************************************************)
AgentMultiple ==
    5

HeavyMultiple ==
    3

\* A leak test whose fallback starts at threshold * 3 instead of above it.
is_leak_candidate_from_multiple(proc, threshold, f, has_psutil) ==
    IF ~Truthy(proc.command) THEN FALSE
    ELSE IF has_psutil /\ f.term = "tty" THEN FALSE
    ELSE LET cmd == Lower(proc.command[1])
         IN  IF Contains(cmd, str_copilot)
             THEN pty_count(proc) > threshold * AgentMultiple
             ELSE pty_count(proc) >= threshold * HeavyMultiple

\* is_leak_candidate(proc, threshold); has_psutil is the module's HAS_PSUTIL.
is_leak_candidate(proc, threshold, f, has_psutil) ==
    IF ~Truthy(proc.command) THEN FALSE
    ELSE IF has_psutil /\ f.term = "tty" THEN FALSE
    ELSE LET cmd == Lower(proc.command[1])
         IN  IF Contains(cmd, str_copilot)
             THEN pty_count(proc) > threshold * AgentMultiple
             ELSE IF Contains(cmd, str_node) /\ Contains(cmd, str_copilot)
             THEN pty_count(proc) > threshold * AgentMultiple
             ELSE IF Contains(cmd, str_agent) /\ Contains(cmd, str_copilot)
             THEN pty_count(proc) > threshold * AgentMultiple
             ELSE pty_count(proc) > threshold * HeavyMultiple

\* The snapshots of `processes` at the positions in `keep`, in map order (the
\* process map is a sequence of snapshots in insertion order, as a Python dict
\* keeps them).
RECURSIVE PickFrom(_, _, _)
PickFrom(processes, keep, i) ==
    IF i > Len(processes) THEN <<>>
    ELSE (IF i \in keep THEN <<processes[i]>> ELSE <<>>)
         \o PickFrom(processes, keep, i + 1)

\* A get_heavy_users that also returns a process holding exactly `threshold`.
get_heavy_users_from_threshold(processes, threshold) ==
    PickFrom(processes,
             {i \in 1..Len(processes) : pty_count(processes[i]) >= threshold}, 1)

\* get_heavy_users(processes, threshold)
get_heavy_users(processes, threshold) ==
    PickFrom(processes,
             {i \in 1..Len(processes) : pty_count(processes[i]) > threshold}, 1)

\* get_suspected_leaks(processes, threshold); facts[i] is what the OS answers
\* about processes[i].
get_suspected_leaks(processes, threshold, facts, has_psutil) ==
    PickFrom(processes,
             {i \in 1..Len(processes) :
                is_leak_candidate(processes[i], threshold, facts[i], has_psutil)}, 1)

\* os.kill(pid, SIGTERM) as kill_processes sees it: "delivered", or the error
\* raised ("gone": ProcessLookupError, "denied": PermissionError).
\* kill_processes(pids): outcome[i] is what os.kill answers on the i-th turn of
\* the loop.  `results` is the dict returned (a later turn for the same pid
\* overwrites the entry), `tried` the pids os.kill was called with, `raised`
\* whether an exception left the function.
KillStart ==
    [results |-> <<>>, tried |-> <<>>, raised |-> FALSE]

\* A kill_processes whose loop ends at the first pid that cannot be signalled.
RECURSIVE KillUntilFailure(_, _, _, _)
KillUntilFailure(pids, outcome, i, acc) ==
    IF i > Len(pids) THEN acc
    ELSE LET pid == pids[i]
             tried == Append(acc.tried, pid)
         IN  IF outcome[i] = "delivered"
             THEN KillUntilFailure(pids, outcome, i + 1,
                    [acc EXCEPT !.results = (pid :> TRUE) @@ @, !.tried = tried])
             ELSE [acc EXCEPT !.results = (pid :> FALSE) @@ @, !.tried = tried]

kill_processes_until_failure(pids, outcome) ==
    KillUntilFailure(pids, outcome, 1, KillStart)

\* The loop of kill_processes from its i-th turn on.
RECURSIVE KillEach(_, _, _, _)
KillEach(pids, outcome, i, acc) ==
    IF i > Len(pids) THEN acc
    ELSE LET pid == pids[i]
             tried == Append(acc.tried, pid)
         IN  IF outcome[i] = "delivered"
             THEN KillEach(pids, outcome, i + 1,
                    [acc EXCEPT !.results = (pid :> TRUE) @@ @, !.tried = tried])
             ELSE IF outcome[i] = "gone"       \* except ProcessLookupError
             THEN KillEach(pids, outcome, i + 1,
                    [acc EXCEPT !.results = (pid :> FALSE) @@ @, !.tried = tried])
             ELSE IF outcome[i] = "denied"     \* except PermissionError
             THEN KillEach(pids, outcome, i + 1,
                    [acc EXCEPT !.results = (pid :> FALSE) @@ @, !.tried = tried])
             ELSE [acc EXCEPT !.tried = tried, !.raised = TRUE]

kill_processes(pids, outcome) ==
    KillEach(pids, outcome, 1, KillStart)

(***************************************************************************)
(* Bounds of the model                                                     *)
(***************************************************************************)
\* Daemon processes ever spawned in one behaviour.
MaxSpawns ==
    2

\* start() and stop() calls begun in one behaviour.
MaxCalls ==
    2

\* Scan cycles begun in one behaviour, all daemon instances together.
MaxScan ==
    2

\* Length of the pid lists kill_processes is called on.
MaxPids ==
    3

\* The largest PTY count of a process the thresholds are tried on.
MaxPtys ==
    31

\* Ticks of the clock per second, and the largest age of a cache file, in
\* ticks.
TicksPerSecond ==
    2

MaxAge ==
    10

\* Lines of the text parse_lsof_output is called on.
MaxLines ==
    4

(***************************************************************************)
(* pty_daemon.py: state                                                    *)
(***************************************************************************)
VARIABLES
    config,       \* DaemonConfig: [auto_kill_threshold]
    has_psutil,   \* pty_scanner.HAS_PSUTIL
    world,        \* what lsof and psutil report: a sequence of [proc, facts]
    pidFile,      \* config.pid_file: <<>> (no file) or <<pid>>
    tmpFile,      \* cache_file.with_suffix(".tmp"): [exists, data]
    cacheFile,    \* config.cache_file: [exists, data]
    dpc,          \* daemon pid -> where that background process is
    running,      \* daemon pid -> self.running
    scan_count,   \* daemon pid -> self.scan_count
    cyc,          \* daemon pid -> <<cache_data>> of the cycle in progress
    fd,           \* daemon pid -> the file its open descriptor writes to
    cpc,          \* caller -> where it is in start() / stop()
    cloc,         \* caller -> locals of the call in progress
    cres,         \* caller -> <<result dict>> of its last finished call
    lastRead,     \* what the cache reader saw on its last read
    sigLog,       \* SIGTERMs tried by auto-kill: a set of [by, to, n, ok]
    nCalls,       \* calls begun so far
    nScans,       \* cycles begun so far
    lastStart,    \* <<pid>> of the last successful start() with no stop() since
    inp,          \* inputs of the pure functions under check
    out           \* their results

vars ==
    <<config, has_psutil, world, pidFile, tmpFile, cacheFile, dpc,
      running, scan_count, cyc, fd, cpc, cloc, cres, lastRead, sigLog, nCalls,
      nScans, lastStart, inp, out>>

fileVars ==
    <<tmpFile, cacheFile>>

callerVars ==
    <<cpc, cloc, cres>>

procVars ==
    <<dpc, running, scan_count, cyc, fd>>

envVars ==
    <<config, has_psutil, world>>

pureVars ==
    <<inp, out>>

DaemonPids ==
    101..(100 + MaxSpawns)

\* A process that is not a daemon and a pid no process has.
ExtPids ==
    {500}

StalePids ==
    {999}

Callers ==
    {"c1", "c2"}

\* The daemon's fixed base threshold (threshold=4 in _scan_and_cache).
BaseThreshold ==
    4

PtyListLimit ==
    10

Alive(pcs, pid) ==
    pid \in DaemonPids /\ pcs[pid] \notin {"none", "dead"}

\* os.kill(pid, 0) succeeds
ProbeAlive(pid) ==
    Alive(dpc, pid)

\* The bound on cycles: another cycle may begin.
MayScan ==
    nScans < MaxScan

\* The bound on calls: caller c may begin another call (the callers are
\* interchangeable: the second one calls only while the first is in a call).
MayCall(c) ==
    /\ nCalls < MaxCalls
    /\ c # "c1" => cpc["c1"] # "idle"

InLoop(d) ==
    dpc[d] \in {"loop", "scan", "open", "write", "rename", "sleep"}

(***************************************************************************)
(* Signals                                                                 *)
(***************************************************************************)
\* SIGTERM reaches daemon `d`: before run_loop installs _handle_sigterm the
\* default action ends the process; afterwards the handler clears self.running.
\* st is [dpc, running, scan_count, cyc, fd].
Exited(st, d) ==
    [st EXCEPT !.dpc[d] = "dead", !.running[d] = FALSE, !.scan_count[d] = 0,
               !.cyc[d] = <<>>, !.fd[d] = "closed"]

_handle_sigterm(st, d) ==
    IF ~Alive(st.dpc, d) THEN st
    ELSE IF st.dpc[d] \in {"boot", "sig"} THEN Exited(st, d)
    ELSE [st EXCEPT !.running[d] = FALSE]

\* SIGKILL
Sigkill(st, d) ==
    IF ~Alive(st.dpc, d) THEN st ELSE Exited(st, d)

ProcState ==
    [dpc |-> dpc, running |-> running, scan_count |-> scan_count, cyc |-> cyc,
     fd |-> fd]

\* A file: it exists or not, and holds <<>> (nothing written yet) or
\* <<cache_data>>.
NoFile ==
    [exists |-> FALSE, data |-> <<>>]

EmptyFile ==
    [exists |-> TRUE, data |-> <<>>]

SetProcState(st) ==
    /\ dpc' = st.dpc
    /\ running' = st.running
    /\ scan_count' = st.scan_count
    /\ cyc' = st.cyc
    /\ fd' = st.fd

(***************************************************************************)
(* pty_daemon.py: the caller's side (is_running, start, stop)              *)
(***************************************************************************)
IdleLoc ==
    [op |-> "none", pid |-> <<>>, child |-> <<>>, stale |-> FALSE, prior |-> <<>>]

\* The dict a call returns; `stale`, `child` and `prior` are not in it: they
\* record that the call's is_running() found a dead pid in the PID file, the
\* process the call spawned, and the daemon an earlier start() had reported
\* and that was alive, with no stop() since, when the call began.
Result(op, success, error, pid, loc) ==
    [op |-> op, success |-> success, error |-> error, pid |-> pid,
     stale |-> loc.stale, child |-> loc.child, prior |-> loc.prior]

\* An is_running() that trusts the PID file without probing the pid.
is_running_trusts_file ==
    IF pidFile = <<>> THEN [running |-> FALSE, pid |-> <<>>, unlink |-> FALSE]
    ELSE [running |-> TRUE, pid |-> pidFile, unlink |-> FALSE]

\* is_running() up to its verdict: the PID file is read and the recorded pid is
\* probed with os.kill(pid, 0).  `unlink` says the except branch is taken, which
\* goes on to delete the file (IsRunningUnlink).
is_running ==
    IF pidFile = <<>> THEN [running |-> FALSE, pid |-> <<>>, unlink |-> FALSE]
    ELSE IF ProbeAlive(pidFile[1])
    THEN [running |-> TRUE, pid |-> pidFile, unlink |-> FALSE]
    ELSE [running |-> FALSE, pid |-> <<>>, unlink |-> TRUE]

StopActive ==
    \E c \in Callers : cloc[c].op = "stop"

\* The call of caller c returns `result`.
Return(c, result) ==
    /\ cpc' = [cpc EXCEPT ![c] = "idle"]
    /\ cloc' = [cloc EXCEPT ![c] = IdleLoc]
    /\ cres' = [cres EXCEPT ![c] = <<result>>]

\* The call of caller c goes on at `pc` with locals `loc`.
Goto(c, pc, loc) ==
    /\ cpc' = [cpc EXCEPT ![c] = pc]
    /\ cloc' = [cloc EXCEPT ![c] = loc]
    /\ cres' = [cres EXCEPT ![c] = <<>>]

\* start(): the call and its is_running() check.
StartProbe(c) ==
    /\ cpc[c] = "idle"
    /\ MayCall(c)
    /\ nCalls' = nCalls + 1
    /\ LET r == is_running
           loc == [op |-> "start", pid |-> r.pid, child |-> <<>>,
                   stale |-> pidFile # <<>> /\ ~ProbeAlive(pidFile[1]),
                   prior |-> IF lastStart # <<>> /\ ProbeAlive(lastStart[1])
                                /\ ~StopActive
                             THEN lastStart ELSE <<>>]
       IN  IF r.running
           THEN Return(c, Result("start", FALSE, "already running", r.pid, loc))
           ELSE Goto(c, IF r.unlink THEN "unlink" ELSE "spawn", loc)
    /\ UNCHANGED <<envVars, pidFile, fileVars, procVars, lastRead, sigLog, nScans,
                   lastStart, pureVars>>

\* is_running(): self.config.pid_file.unlink(missing_ok=True), return False, None
IsRunningUnlink(c) ==
    /\ cpc[c] = "unlink"
    /\ pidFile' = <<>>
    /\ IF cloc[c].op = "start"
       THEN Goto(c, "spawn", cloc[c])
       ELSE Return(c, Result("stop", FALSE, "not running", <<>>, cloc[c]))
    /\ UNCHANGED <<envVars, fileVars, procVars, lastRead, sigLog, nScans, nCalls,
                   lastStart, pureVars>>

\* start(): subprocess.Popen(..., start_new_session=True)
StartSpawn(c) ==
    /\ cpc[c] = "spawn"
    /\ \E d \in DaemonPids :
        /\ dpc[d] = "none"
        /\ \A e \in DaemonPids : dpc[e] = "none" => d <= e
        /\ dpc' = [dpc EXCEPT ![d] = "boot"]
        /\ Goto(c, "poll", [cloc[c] EXCEPT !.child = <<d>>])
    /\ UNCHANGED <<envVars, pidFile, fileVars, running, scan_count, cyc, fd,
                   lastRead, sigLog, nScans, nCalls, lastStart, pureVars>>

\* start(): after time.sleep(0.5), process.poll() decides the result.
StartPoll(c) ==
    /\ cpc[c] = "poll"
    /\ LET d == cloc[c].child[1]
       IN  IF Alive(dpc, d)
           THEN /\ Return(c, Result("start", TRUE, "", <<d>>, cloc[c]))
                /\ lastStart' = IF StopActive THEN <<>> ELSE <<d>>
           ELSE /\ Return(c, Result("start", FALSE, "failed to start", <<>>, cloc[c]))
                /\ lastStart' = lastStart
    /\ UNCHANGED <<envVars, pidFile, fileVars, procVars, lastRead, sigLog, nScans,
                   nCalls, pureVars>>

\* stop(): the call and its is_running() check.
StopProbe(c) ==
    /\ cpc[c] = "idle"
    /\ MayCall(c)
    /\ nCalls' = nCalls + 1
    /\ lastStart' = <<>>
    /\ LET r == is_running
           loc == [op |-> "stop", pid |-> r.pid, child |-> <<>>,
                   stale |-> pidFile # <<>> /\ ~ProbeAlive(pidFile[1]),
                   prior |-> <<>>]
       IN  IF r.running THEN Goto(c, "term", loc)
           ELSE IF r.unlink THEN Goto(c, "unlink", loc)
           ELSE Return(c, Result("stop", FALSE, "not running", <<>>, loc))
    /\ UNCHANGED <<envVars, pidFile, fileVars, procVars, lastRead, sigLog, nScans,
                   pureVars>>

\* stop(): os.kill(pid, signal.SIGTERM); a pid that is gone by now raises, and
\* the except branch returns without touching the PID file.
StopTerm(c) ==
    /\ cpc[c] = "term"
    /\ LET pid == cloc[c].pid[1]
       IN  IF ProbeAlive(pid)
           THEN /\ SetProcState(_handle_sigterm(ProcState, pid))
                /\ Goto(c, "wait", cloc[c])
           ELSE /\ UNCHANGED procVars
                /\ Return(c, Result("stop", FALSE, "failed to stop", cloc[c].pid,
                                    cloc[c]))
    /\ UNCHANGED <<envVars, pidFile, fileVars, lastRead, sigLog, nScans, nCalls,
                   lastStart, pureVars>>

\* stop(): a poll of the wait loop finds the process gone (break).
StopWaitDead(c) ==
    /\ cpc[c] = "wait"
    /\ ~ProbeAlive(cloc[c].pid[1])
    /\ Goto(c, "rmpid", cloc[c])
    /\ UNCHANGED <<envVars, pidFile, fileVars, procVars, lastRead, sigLog, nScans,
                   nCalls, lastStart, pureVars>>

\* stop(): all 50 polls found the process alive (the loop's else branch).
StopWaitTimeout(c) ==
    /\ cpc[c] = "wait"
    /\ ProbeAlive(cloc[c].pid[1])
    /\ Goto(c, "kill9", cloc[c])
    /\ UNCHANGED <<envVars, pidFile, fileVars, procVars, lastRead, sigLog, nScans,
                   nCalls, lastStart, pureVars>>

\* stop(): os.kill(pid, signal.SIGKILL)
StopKill9(c) ==
    /\ cpc[c] = "kill9"
    /\ LET pid == cloc[c].pid[1]
       IN  IF ProbeAlive(pid)
           THEN /\ SetProcState(Sigkill(ProcState, pid))
                /\ Goto(c, "rmpid", cloc[c])
           ELSE /\ UNCHANGED procVars
                /\ Return(c, Result("stop", FALSE, "failed to stop", cloc[c].pid,
                                    cloc[c]))
    /\ UNCHANGED <<envVars, pidFile, fileVars, lastRead, sigLog, nScans, nCalls,
                   lastStart, pureVars>>

\* stop(): self.config.pid_file.unlink(missing_ok=True), return success
StopUnlink(c) ==
    /\ cpc[c] = "rmpid"
    /\ pidFile' = <<>>
    /\ Return(c, Result("stop", TRUE, "", cloc[c].pid, cloc[c]))
    /\ UNCHANGED <<envVars, fileVars, procVars, lastRead, sigLog, nScans, nCalls,
                   lastStart, pureVars>>

(***************************************************************************)
(* pty_daemon.py: the background process (run_loop, _scan_and_cache)       *)
(***************************************************************************)
\* run_loop(): self.running = True; pid_file.write_text(str(os.getpid()))
WritePidFile(d) ==
    /\ dpc[d] = "boot"
    /\ pidFile' = <<d>>
    /\ running' = [running EXCEPT ![d] = TRUE]
    /\ dpc' = [dpc EXCEPT ![d] = "sig"]
    /\ UNCHANGED <<envVars, fileVars, scan_count, cyc, fd, callerVars, lastRead,
                   sigLog, nScans, nCalls, lastStart, pureVars>>

\* run_loop(): signal.signal(SIGTERM / SIGINT, self._handle_sigterm)
InstallHandlers(d) ==
    /\ dpc[d] = "sig"
    /\ dpc' = [dpc EXCEPT ![d] = "loop"]
    /\ UNCHANGED <<envVars, pidFile, fileVars, running, scan_count, cyc, fd,
                   callerVars, lastRead, sigLog, nScans, nCalls, lastStart, pureVars>>

\* run_loop(): while self.running, the first time
LoopTop(d) ==
    /\ dpc[d] = "loop"
    /\ dpc' = [dpc EXCEPT ![d] = IF running[d] THEN "scan" ELSE "cleanup"]
    /\ UNCHANGED <<envVars, pidFile, fileVars, running, scan_count, cyc, fd,
                   callerVars, lastRead, sigLog, nScans, nCalls, lastStart, pureVars>>

\* scan_ptys(): lsof lists the processes that exist.
Visible ==
    {i \in 1..Len(world) :
        world[i].proc.pid \in DaemonPids => Alive(dpc, world[i].proc.pid)}

RECURSIVE SumPtys(_, _)
SumPtys(processes, i) ==
    IF i > Len(processes) THEN 0
    ELSE pty_count(processes[i]) + SumPtys(processes, i + 1)

\* os.kill(pid, SIGTERM) from the daemon: a daemon pid answers by whether it is
\* alive, any other pid by what the host decides (ext).
OsKill(pid, st, ext) ==
    IF pid \in DaemonPids
    THEN (IF Alive(st.dpc, pid) THEN "delivered" ELSE "gone")
    ELSE ext[pid]

\* An auto-kill loop that lists every pid it signals, delivered or not.
RECURSIVE AutoKillListsAttempts(_, _, _, _, _, _)
AutoKillListsAttempts(leaks, i, me, threshold, ext, acc) ==
    IF i > Len(leaks) THEN acc
    ELSE LET proc == leaks[i]
         IN  IF pty_count(proc) >= threshold
             THEN LET res == OsKill(proc.pid, acc.st, ext)
                  IN  AutoKillListsAttempts(leaks, i + 1, me, threshold, ext,
                        [st |-> IF res = "delivered"
                                THEN _handle_sigterm(acc.st, proc.pid)
                                ELSE acc.st,
                         killed |-> Append(acc.killed, proc.pid),
                         tried |-> acc.tried \cup
                                   {[by |-> me, to |-> proc.pid,
                                     n |-> acc.st.scan_count[me],
                                     ok |-> res = "delivered"]}])
             ELSE AutoKillListsAttempts(leaks, i + 1, me, threshold, ext, acc)

\* The auto-kill loop of _scan_and_cache over suspected_leaks[i..]:
\* acc is [st, killed, tried]; an entry of `tried` is one os.kill: who called
\* it, on which pid, in which of the caller's cycles, and whether the signal
\* was delivered.
RECURSIVE AutoKill(_, _, _, _, _, _)
AutoKill(leaks, i, me, threshold, ext, acc) ==
    IF i > Len(leaks) THEN acc
    ELSE LET proc == leaks[i]
         IN  IF pty_count(proc) >= threshold
             THEN LET res == OsKill(proc.pid, acc.st, ext)
                      results == kill_processes(<<proc.pid>>, <<res>>)
                  IN  AutoKill(leaks, i + 1, me, threshold, ext,
                        [st |-> IF res = "delivered"
                                THEN _handle_sigterm(acc.st, proc.pid)
                                ELSE acc.st,
                         killed |-> IF results.results[proc.pid]
                                    THEN Append(acc.killed, proc.pid)
                                    ELSE acc.killed,
                         tried |-> acc.tried \cup
                                   {[by |-> me, to |-> proc.pid,
                                     n |-> acc.st.scan_count[me],
                                     ok |-> res = "delivered"]}])
             ELSE AutoKill(leaks, i + 1, me, threshold, ext, acc)

Brief(p) ==
    [pid |-> p.pid, command |-> p.command, pty_count |-> pty_count(p)]

\* A cache_data whose scan_number counts down instead of up.
CacheDataCountdown(d, n, processes, heavy_users, suspected_leaks, killed) ==
    [writer |-> d,
     scan_number |-> 10 - n,
     total_ptys |-> 0,
     process_count |-> Len(processes),
     processes |-> <<>>,
     heavy_users |-> <<>>,
     suspected_leaks |-> <<>>,
     auto_killed |-> killed]

\* A cache_data whose scan_number goes on from the one in the cache file.
CacheDataResumed(d, n, processes, heavy_users, suspected_leaks, killed) ==
    [writer |-> d,
     scan_number |-> n + (IF cacheFile.exists /\ cacheFile.data # <<>>
                          THEN cacheFile.data[1].scan_number ELSE 0),
     total_ptys |-> SumPtys(processes, 1),
     process_count |-> Len(processes),
     processes |-> <<>>,
     heavy_users |-> [i \in 1..Len(heavy_users) |-> Brief(heavy_users[i])],
     suspected_leaks |-> [i \in 1..Len(suspected_leaks) |-> Brief(suspected_leaks[i])],
     auto_killed |-> killed]

\* cache_data of _scan_and_cache (the timestamp is left out); writer is not in
\* the file: it names the instance that built the snapshot.
CacheData(d, n, processes, heavy_users, suspected_leaks, killed) ==
    [writer |-> d,
     scan_number |-> n,
     total_ptys |-> SumPtys(processes, 1),
     process_count |-> Len(processes),
     processes |-> [i \in 1..Len(processes) |->
                     [pid |-> processes[i].pid,
                      command |-> processes[i].command,
                      pty_count |-> pty_count(processes[i]),
                      ptys |-> SubSeq(processes[i].ptys, 1,
                                 IF Len(processes[i].ptys) < PtyListLimit
                                 THEN Len(processes[i].ptys) ELSE PtyListLimit)]],
     heavy_users |-> [i \in 1..Len(heavy_users) |-> Brief(heavy_users[i])],
     suspected_leaks |-> [i \in 1..Len(suspected_leaks) |-> Brief(suspected_leaks[i])],
     auto_killed |-> killed]

\* _scan_and_cache() from self.scan_count += 1 to the built cache_data: the scan,
\* the queries and the auto-kill loop.
ScanAndClassify(d) ==
    /\ dpc[d] = "scan"
    /\ MayScan
    /\ nScans' = nScans + 1
    /\ \E ext \in [ExtPids -> {"delivered", "gone", "denied"}] :
        LET keep == Visible
            processes == PickFrom([i \in 1..Len(world) |-> world[i].proc], keep, 1)
            facts == PickFrom([i \in 1..Len(world) |-> world[i].facts], keep, 1)
            heavy_users == get_heavy_users(processes, BaseThreshold)
            suspected_leaks ==
                get_suspected_leaks(processes, BaseThreshold, facts, has_psutil)
            n == scan_count[d] + 1
            start == [st |-> [ProcState EXCEPT !.scan_count[d] = n],
                      killed |-> <<>>, tried |-> {}]
            done == IF config.auto_kill_threshold > 0
                    THEN AutoKill(suspected_leaks, 1, d,
                                  config.auto_kill_threshold, ext, start)
                    ELSE start
        IN  /\ SetProcState([done.st EXCEPT
                  !.dpc[d] = "open",
                  !.cyc[d] = <<CacheData(d, n, processes, heavy_users,
                                         suspected_leaks, done.killed)>>])
            /\ sigLog' = sigLog \cup done.tried
    /\ UNCHANGED <<envVars, pidFile, fileVars, callerVars, lastRead, nCalls,
                   lastStart, pureVars>>

\* _scan_and_cache(): scan_ptys() raises (lsof is missing); the except branch
\* logs and the cycle ends without a cache write.
ScanFails(d) ==
    /\ dpc[d] = "scan"
    /\ MayScan
    /\ nScans' = nScans + 1
    /\ scan_count' = [scan_count EXCEPT ![d] = scan_count[d] + 1]
    /\ dpc' = [dpc EXCEPT ![d] = "sleep"]
    /\ UNCHANGED <<envVars, pidFile, fileVars, running, cyc, fd, callerVars,
                   lastRead, sigLog, nCalls, lastStart, pureVars>>

\* temp_file.write_text(...): open(temp, "w") creates the file or truncates
\* the one that is there.
OpenTemp(d) ==
    /\ dpc[d] = "open"
    /\ tmpFile' = EmptyFile
    /\ fd' = [fd EXCEPT ![d] = "tmp"]
    /\ dpc' = [dpc EXCEPT ![d] = "write"]
    /\ UNCHANGED <<envVars, pidFile, cacheFile, running, scan_count, cyc,
                   callerVars, lastRead, sigLog, nScans, nCalls, lastStart, pureVars>>

\* temp_file.write_text(...): the data goes to the file the descriptor names
\* (the temp file; the cache file if another process renamed it meanwhile; a
\* file no path names any more), and the descriptor is closed.
WriteTemp(d) ==
    /\ dpc[d] = "write"
    /\ tmpFile' = IF fd[d] = "tmp" THEN [exists |-> TRUE, data |-> cyc[d]]
                  ELSE tmpFile
    /\ cacheFile' = IF fd[d] = "cache" THEN [exists |-> TRUE, data |-> cyc[d]]
                    ELSE cacheFile
    /\ fd' = [fd EXCEPT ![d] = "closed"]
    /\ dpc' = [dpc EXCEPT ![d] = "rename"]
    /\ UNCHANGED <<envVars, pidFile, running, scan_count, cyc, callerVars,
                   lastRead, sigLog, nScans, nCalls, lastStart, pureVars>>

\* temp_file.write_text(...) raises (the disk is full): nothing is written,
\* the except branch logs and the cycle ends.
WriteFails(d) ==
    /\ dpc[d] = "write"
    /\ fd' = [fd EXCEPT ![d] = "closed"]
    /\ cyc' = [cyc EXCEPT ![d] = <<>>]
    /\ dpc' = [dpc EXCEPT ![d] = "sleep"]
    /\ UNCHANGED <<envVars, pidFile, fileVars, running, scan_count, callerVars,
                   lastRead, sigLog, nScans, nCalls, lastStart, pureVars>>

\* _scan_and_cache(): scan_ptys() raises and, in the except branch, _log()
\* raises too (the log file cannot be appended to): the exception leaves
\* _scan_and_cache and the while loop, and run_loop's finally runs _cleanup.
ScanErrorEscapes(d) ==
    /\ dpc[d] = "scan"
    /\ MayScan
    /\ nScans' = nScans + 1
    /\ scan_count' = [scan_count EXCEPT ![d] = scan_count[d] + 1]
    /\ dpc' = [dpc EXCEPT ![d] = "cleanup"]
    /\ UNCHANGED <<envVars, pidFile, fileVars, running, cyc, fd, callerVars,
                   lastRead, sigLog, nCalls, lastStart, pureVars>>

\* _scan_and_cache(): temp_file.write_text(...) raises (the disk is full) and
\* so does _log() in the except branch: the exception leaves the loop.
WriteErrorEscapes(d) ==
    /\ dpc[d] = "write"
    /\ fd' = [fd EXCEPT ![d] = "closed"]
    /\ cyc' = [cyc EXCEPT ![d] = <<>>]
    /\ dpc' = [dpc EXCEPT ![d] = "cleanup"]
    /\ UNCHANGED <<envVars, pidFile, fileVars, running, scan_count, callerVars,
                   lastRead, sigLog, nScans, nCalls, lastStart, pureVars>>

\* temp_file.rename(self.config.cache_file): the temp file takes the cache
\* file's name, and the file that had it is gone; descriptors follow their
\* files.  A temp path that is gone raises FileNotFoundError, which the except
\* branch logs.
RenameTemp(d) ==
    /\ dpc[d] = "rename"
    /\ IF tmpFile.exists
       THEN /\ cacheFile' = tmpFile
            /\ tmpFile' = NoFile
            /\ fd' = [e \in DaemonPids |->
                        IF fd[e] = "tmp" THEN "cache"
                        ELSE IF fd[e] = "cache" THEN "unlinked"
                        ELSE fd[e]]
       ELSE UNCHANGED <<tmpFile, cacheFile, fd>>
    /\ cyc' = [cyc EXCEPT ![d] = <<>>]
    /\ dpc' = [dpc EXCEPT ![d] = "sleep"]
    /\ UNCHANGED <<envVars, pidFile, running, scan_count, callerVars, lastRead,
                   sigLog, nScans, nCalls, lastStart, pureVars>>

\* run_loop(): time.sleep(self.config.scan_interval) returns and the loop
\* tests self.running again (a signal handled between the two has the effect
\* of one handled during the sleep).
Sleep(d) ==
    /\ dpc[d] = "sleep"
    /\ dpc' = [dpc EXCEPT ![d] = IF running[d] THEN "scan" ELSE "cleanup"]
    /\ UNCHANGED <<envVars, pidFile, fileVars, running, scan_count, cyc, fd,
                   callerVars, lastRead, sigLog, nScans, nCalls, lastStart, pureVars>>

\* _cleanup(): pid_file.unlink(missing_ok=True), then the process ends
Cleanup(d) ==
    /\ dpc[d] = "cleanup"
    /\ pidFile' = <<>>
    /\ SetProcState(Exited(ProcState, d))
    /\ UNCHANGED <<envVars, fileVars, callerVars, lastRead, sigLog, nScans, nCalls,
                   lastStart, pureVars>>

\* What a reader of the cache file gets at this instant.
ReadCache ==
    cacheFile

\* A dashboard or observer polls the cache file.
Read ==
    /\ lastRead' = ReadCache
    /\ lastRead' # lastRead
    /\ UNCHANGED <<envVars, pidFile, fileVars, procVars, callerVars, sigLog, nScans,
                   nCalls, lastStart, pureVars>>

(***************************************************************************)
(* The daemon's lifecycle: callers of start() and stop(), the background   *)
(* processes they spawn, and a reader of the cache file.                   *)
(***************************************************************************)
\* One line of the process table: the snapshot lsof yields and what psutil
\* answers about that pid.
Entry(pid, command, n, term) ==
    [proc |-> PTYProcess(pid, command, Ptys(n), <<1>>),
     facts |-> OsFacts(term, "running", <<1>>, <<"user", "bash">>)]

\* Hosts of the lifecycle specification: nothing holds a PTY and auto-kill is
\* off, or another process holds 13 PTYs without a terminal and auto-kill is
\* on.  (The background process itself holds no PTY of its own: its output goes
\* to the null device and it opens none.)
LifecycleHosts ==
    {[world |-> <<>>, auto_kill_threshold |-> 0],
     [world |-> <<Entry(500, CmdBash, 13, "none")>>, auto_kill_threshold |-> 1]}

InitFiles ==
    /\ tmpFile = NoFile
    /\ cacheFile = NoFile
    /\ lastRead = NoFile

InitProcs ==
    /\ running = [d \in DaemonPids |-> FALSE]
    /\ scan_count = [d \in DaemonPids |-> 0]
    /\ cyc = [d \in DaemonPids |-> <<>>]
    /\ fd = [d \in DaemonPids |-> "closed"]
    /\ cpc = [c \in Callers |-> "idle"]
    /\ cloc = [c \in Callers |-> IdleLoc]
    /\ cres = [c \in Callers |-> <<>>]
    /\ sigLog = {}
    /\ lastStart = <<>>
    /\ nScans = 0

InitPure ==
    /\ inp = <<>>
    /\ out = <<>>

Init ==
    /\ \E h \in LifecycleHosts :
        /\ config = [auto_kill_threshold |-> h.auto_kill_threshold]
        /\ world = h.world
    /\ has_psutil = TRUE
    /\ pidFile \in {<<>>} \cup {<<p>> : p \in StalePids}
    /\ dpc = [d \in DaemonPids |-> "none"]
    /\ nCalls = 0
    /\ InitFiles
    /\ InitProcs
    /\ InitPure

CallerStep(c) ==
    \/ StartProbe(c)
    \/ IsRunningUnlink(c)
    \/ StartSpawn(c)
    \/ StartPoll(c)
    \/ StopProbe(c)
    \/ StopTerm(c)
    \/ StopWaitDead(c)
    \/ StopWaitTimeout(c)
    \/ StopKill9(c)
    \/ StopUnlink(c)

DaemonStep(d) ==
    \/ WritePidFile(d)
    \/ InstallHandlers(d)
    \/ LoopTop(d)
    \/ ScanAndClassify(d)
    \/ ScanFails(d)
    \/ OpenTemp(d)
    \/ WriteTemp(d)
    \/ WriteFails(d)
    \/ RenameTemp(d)
    \/ Sleep(d)
    \/ Cleanup(d)

Next ==
    \/ \E c \in Callers : CallerStep(c)
    \/ \E d \in DaemonPids : DaemonStep(d)

Spec ==
    Init /\ [][Next]_vars

(***************************************************************************)
(* One call: a single start() or stop() against a host with no PID file,   *)
(* with a stale PID file, or with a daemon that runs its loop.  All calls   *)
(* but one have been made before.                                          *)
(***************************************************************************)
InitOneCall ==
    /\ \E h \in LifecycleHosts :
        /\ config = [auto_kill_threshold |-> h.auto_kill_threshold]
        /\ world = h.world
    /\ has_psutil = TRUE
    /\ \/ /\ pidFile \in {<<>>} \cup {<<p>> : p \in StalePids}
          /\ dpc = [d \in DaemonPids |-> "none"]
          /\ running = [d \in DaemonPids |-> FALSE]
       \/ /\ pidFile = <<101>>
          /\ dpc = [d \in DaemonPids |-> IF d = 101 THEN "loop" ELSE "none"]
          /\ running = [d \in DaemonPids |-> d = 101]
    /\ scan_count = [d \in DaemonPids |-> 0]
    /\ cyc = [d \in DaemonPids |-> <<>>]
    /\ fd = [d \in DaemonPids |-> "closed"]
    /\ cpc = [c \in Callers |-> "idle"]
    /\ cloc = [c \in Callers |-> IdleLoc]
    /\ cres = [c \in Callers |-> <<>>]
    /\ sigLog = {}
    /\ lastStart = <<>>
    /\ nScans = 0
    /\ nCalls = MaxCalls - 1
    /\ InitFiles
    /\ InitPure

SpecOneCall ==
    InitOneCall /\ [][Next]_vars

(***************************************************************************)
(* The scan cycle: one background process, whatever the host reports, a    *)
(* reader of the cache file, signals from outside, and a log file that may *)
(* stop taking writes (in the lifecycle above it always takes them: the    *)
(* background process logs three lines before it enters its loop).         *)
(***************************************************************************)
\* SIGTERM or SIGINT reaches daemon d from outside (kill, Ctrl-C).
Interrupt(d) ==
    /\ Alive(dpc, d)
    /\ dpc[d] \in {"boot", "sig"} \/ running[d]
    /\ SetProcState(_handle_sigterm(ProcState, d))
    /\ UNCHANGED <<envVars, pidFile, fileVars, callerVars, lastRead, sigLog, nCalls,
                   nScans, lastStart, pureVars>>

\* What lsof may report about a process that is not the daemon ...
ExtEntries ==
    {<<>>} \cup
    {<<Entry(pid, command, n, term)>> :
        pid \in ExtPids, command \in {CmdNone, CmdBash, CmdNodeCopilot},
        n \in {12, 13, 21}, term \in {"tty", "none", "nosuch", "denied"}}

\* ... and about the daemon process itself (it runs in a session of its own:
\* no controlling terminal).
SelfEntries ==
    {<<>>} \cup {<<Entry(101, CmdPython, n, "none")>> : n \in {1, 13}}

AutoKillThresholds ==
    {0, 1, 13, 14}

InitCycle ==
    /\ world \in {e \o me : e \in ExtEntries, me \in SelfEntries}
    /\ config \in {[auto_kill_threshold |-> t] : t \in AutoKillThresholds}
    /\ has_psutil \in BOOLEAN
    /\ pidFile = <<>>
    /\ dpc = [d \in DaemonPids |-> IF d = 101 THEN "boot" ELSE "none"]
    /\ nCalls = 0
    /\ InitFiles
    /\ InitProcs
    /\ InitPure

NextCycle ==
    \/ \E d \in DaemonPids : DaemonStep(d)
    \/ \E d \in DaemonPids : ScanErrorEscapes(d)
    \/ \E d \in DaemonPids : WriteErrorEscapes(d)
    \/ \E d \in DaemonPids : Interrupt(d)
    \/ Read

SpecCycle ==
    InitCycle /\ [][NextCycle]_vars

(***************************************************************************)
(* Stopping: a background process that starts up or runs its loop, stop()  *)
(* calls of two callers, and signals from outside.                         *)
(***************************************************************************)
InitStop ==
    /\ \E h \in LifecycleHosts :
        /\ config = [auto_kill_threshold |-> h.auto_kill_threshold]
        /\ world = h.world
    /\ has_psutil = TRUE
    /\ \/ /\ pidFile = <<>>
          /\ dpc = [d \in DaemonPids |-> IF d = 101 THEN "boot" ELSE "none"]
          /\ running = [d \in DaemonPids |-> FALSE]
       \/ /\ pidFile = <<101>>
          /\ dpc = [d \in DaemonPids |-> IF d = 101 THEN "loop" ELSE "none"]
          /\ running = [d \in DaemonPids |-> d = 101]
    /\ scan_count = [d \in DaemonPids |-> 0]
    /\ cyc = [d \in DaemonPids |-> <<>>]
    /\ fd = [d \in DaemonPids |-> "closed"]
    /\ cpc = [c \in Callers |-> "idle"]
    /\ cloc = [c \in Callers |-> IdleLoc]
    /\ cres = [c \in Callers |-> <<>>]
    /\ sigLog = {}
    /\ lastStart = <<>>
    /\ nScans = 0
    /\ nCalls = 0
    /\ InitFiles
    /\ InitPure

StopStep(c) ==
    \/ StopProbe(c)
    \/ IsRunningUnlink(c)
    \/ StopTerm(c)
    \/ StopWaitDead(c)
    \/ StopWaitTimeout(c)
    \/ StopKill9(c)
    \/ StopUnlink(c)

NextStop ==
    \/ \E c \in Callers : StopStep(c)
    \/ \E d \in DaemonPids : DaemonStep(d)
    \/ \E d \in DaemonPids : Interrupt(d)

SpecStop ==
    InitStop /\ [][NextStop]_vars

(***************************************************************************)
(* A restart: a new background process (pid 101) starts where a previous   *)
(* instance (pid 102, gone) has or has not left a snapshot in the cache    *)
(* file.                                                                   *)
(***************************************************************************)
\* scan_number values the previous instance may have left.
LeftScanNumbers ==
    {1, 2, 7}

\* The snapshot of the previous instance's k-th cycle, on a host where nothing
\* held a PTY.
LeftSnapshot(k) ==
    [writer |-> 102, scan_number |-> k, total_ptys |-> 0, process_count |-> 0,
     processes |-> <<>>, heavy_users |-> <<>>, suspected_leaks |-> <<>>,
     auto_killed |-> <<>>]

InitRestart ==
    /\ \E h \in LifecycleHosts :
        /\ config = [auto_kill_threshold |-> h.auto_kill_threshold]
        /\ world = h.world
    /\ has_psutil \in BOOLEAN
    /\ pidFile = <<>>
    /\ dpc = [d \in DaemonPids |-> IF d = 101 THEN "boot" ELSE "dead"]
    /\ nCalls = 0
    /\ tmpFile = NoFile
    /\ cacheFile \in {NoFile} \cup
            {[exists |-> TRUE,
              data |-> <<LeftSnapshot(k)>>] : k \in LeftScanNumbers}
    /\ lastRead = NoFile
    /\ InitProcs
    /\ InitPure

SpecRestart ==
    InitRestart /\ [][NextCycle]_vars

(***************************************************************************)
(* The snapshot's contents: one background process on hosts where another  *)
(* process holds 4, 5 or 13 PTYs and the daemon's own process may be       *)
(* listed with 5.                                                          *)
(***************************************************************************)
SnapshotExtEntries ==
    {<<>>} \cup
    {<<Entry(pid, command, n, term)>> :
        pid \in ExtPids, command \in {CmdNone, CmdBash},
        n \in {4, 5, 13}, term \in {"tty", "none"}}

SnapshotSelfEntries ==
    {<<>>, <<Entry(101, CmdPython, 5, "none")>>}

InitSnapshot ==
    /\ world \in {e \o me : e \in SnapshotExtEntries, me \in SnapshotSelfEntries}
    /\ config \in {[auto_kill_threshold |-> t] : t \in {0, 13}}
    /\ has_psutil = TRUE
    /\ pidFile = <<>>
    /\ dpc = [d \in DaemonPids |-> IF d = 101 THEN "boot" ELSE "none"]
    /\ nCalls = 0
    /\ InitFiles
    /\ InitProcs
    /\ InitPure

SpecSnapshot ==
    InitSnapshot /\ [][NextCycle]_vars

(***************************************************************************)
(* The inter-cycle sleep in time: time.sleep(scan_interval) is at "sleep"  *)
(* when it is called (the whole interval remains) and at "sleeping" once   *)
(* part of the interval has passed (the remainder is left).  Signals       *)
(* arrive during the sleep only.                                           *)
(***************************************************************************)
\* Time passes inside time.sleep(): a handler that returns without raising
\* leaves the call in place and it goes on with the time that is left.
SleepPasses(d) ==
    /\ dpc[d] = "sleep"
    /\ dpc' = [dpc EXCEPT ![d] = "sleeping"]
    /\ UNCHANGED <<envVars, pidFile, fileVars, running, scan_count, cyc, fd,
                   callerVars, lastRead, sigLog, nScans, nCalls, lastStart, pureVars>>

\* The interval is over: time.sleep() returns and the loop tests self.running.
SleepReturns(d) ==
    /\ dpc[d] = "sleeping"
    /\ dpc' = [dpc EXCEPT ![d] = IF running[d] THEN "scan" ELSE "cleanup"]
    /\ UNCHANGED <<envVars, pidFile, fileVars, running, scan_count, cyc, fd,
                   callerVars, lastRead, sigLog, nScans, nCalls, lastStart, pureVars>>

\* SIGTERM or SIGINT reaches daemon d while it is in time.sleep().
InterruptAsleep(d) ==
    /\ dpc[d] \in {"sleep", "sleeping"}
    /\ running[d]
    /\ SetProcState(_handle_sigterm(ProcState, d))
    /\ UNCHANGED <<envVars, pidFile, fileVars, callerVars, lastRead, sigLog, nCalls,
                   nScans, lastStart, pureVars>>

InitSleep ==
    /\ \E h \in LifecycleHosts :
        /\ config = [auto_kill_threshold |-> h.auto_kill_threshold]
        /\ world = h.world
    /\ has_psutil \in BOOLEAN
    /\ pidFile = <<>>
    /\ dpc = [d \in DaemonPids |-> IF d = 101 THEN "boot" ELSE "none"]
    /\ nCalls = 0
    /\ InitFiles
    /\ InitProcs
    /\ InitPure

NextSleep ==
    \/ \E d \in DaemonPids : WritePidFile(d)
    \/ \E d \in DaemonPids : InstallHandlers(d)
    \/ \E d \in DaemonPids : LoopTop(d)
    \/ \E d \in DaemonPids : ScanAndClassify(d)
    \/ \E d \in DaemonPids : ScanFails(d)
    \/ \E d \in DaemonPids : OpenTemp(d)
    \/ \E d \in DaemonPids : WriteTemp(d)
    \/ \E d \in DaemonPids : WriteFails(d)
    \/ \E d \in DaemonPids : RenameTemp(d)
    \/ \E d \in DaemonPids : SleepPasses(d)
    \/ \E d \in DaemonPids : SleepReturns(d)
    \/ \E d \in DaemonPids : InterruptAsleep(d)
    \/ \E d \in DaemonPids : Cleanup(d)
    \/ Read

SpecSleep ==
    InitSleep /\ [][NextSleep]_vars

(***************************************************************************)
(* Shutdown by signal: one background process that is scheduled again and  *)
(* again (weak fairness on its steps: it is a process of its own and none  *)
(* of its steps waits for another process), and signals from outside.      *)
(***************************************************************************)
\* SIGTERM or SIGINT reaches daemon d; none is sent where the bound on cycles
\* would keep the daemon from going on.
InterruptInBounds(d) ==
    /\ dpc[d] = "scan" => MayScan
    /\ Interrupt(d)

NextShutdown ==
    \/ \E d \in DaemonPids : DaemonStep(d)
    \/ \E d \in DaemonPids : InterruptInBounds(d)

SpecShutdown ==
    /\ InitSleep
    /\ [][NextShutdown]_vars
    /\ \A d \in DaemonPids : WF_vars(DaemonStep(d))

(***************************************************************************)
(* A tool that never returns: in any cycle lsof may hang; the background   *)
(* process is scheduled again and again (weak fairness on its steps).      *)
(***************************************************************************)
\* _scan_and_cache(): scan_ptys() calls run_lsof(), whose subprocess.run() has
\* no timeout, and lsof never returns: the daemon waits at "hung"; a signal
\* handler runs and returns, and the wait goes on.
ScanHangs(d) ==
    /\ dpc[d] = "scan"
    /\ MayScan
    /\ nScans' = nScans + 1
    /\ scan_count' = [scan_count EXCEPT ![d] = scan_count[d] + 1]
    /\ dpc' = [dpc EXCEPT ![d] = "hung"]
    /\ UNCHANGED <<envVars, pidFile, fileVars, running, cyc, fd, callerVars,
                   lastRead, sigLog, nCalls, lastStart, pureVars>>

NextHang ==
    \/ \E d \in DaemonPids : DaemonStep(d)
    \/ \E d \in DaemonPids : ScanHangs(d)
    \/ \E d \in DaemonPids : InterruptInBounds(d)

SpecHang ==
    /\ InitSleep
    /\ [][NextHang]_vars
    /\ \A d \in DaemonPids : WF_vars(DaemonStep(d))

(***************************************************************************)
(* The classifier and the queries as functions of their inputs             *)
(***************************************************************************)
\* The caller's process tree: the caller is pid 300.  `ancestors` is the chain
\* psutil's parents() walks (the parent, its parent, ... up to pid 1).
OurPid ==
    {300}

Trees ==
    {[parentOf |-> (300 :> <<200>>) @@ (200 :> <<150>>) @@ (150 :> <<1>>)
                   @@ (1 :> <<>>),
      ancestors |-> {200, 150, 1}, lookup |-> "ok"],
     [parentOf |-> (300 :> <<1>>) @@ (1 :> <<>>),
      ancestors |-> {1}, lookup |-> "ok"],
     [parentOf |-> (300 :> <<200>>) @@ (200 :> <<150>>) @@ (150 :> <<1>>)
                   @@ (1 :> <<>>),
      ancestors |-> {200, 150, 1}, lookup |-> "denied"]}

TargetPids ==
    {50, 150, 200, 300, 400}

TargetCommands ==
    {CmdNone, CmdBash, CmdNodeCopilot}

TargetPtyCounts ==
    {1, 2, 9, 13, 21}

Thresholds ==
    {1, 4}

TargetFacts ==
    {OsFacts(term, status, ppid, owner) :
        term \in {"tty", "none", "nosuch", "denied"},
        status \in {"zombie", "running", "denied"},
        ppid \in {<<1>>, <<200>>, <<>>},
        owner \in {<<>>, <<"user", "bash">>, <<"root", "bash">>,
                   <<"root", "launchd">>, <<"root", "WindowServer">>}}

\* The rest of the process map, after the target's snapshot.
OtherEntries ==
    {<<>>, <<Entry(600, CmdBash, 13, "none")>>}

ClassifyInputs ==
    {[pid |-> pid, proc |-> PTYProcess(pid, command, Ptys(n), <<1>>),
      facts |-> f, threshold |-> threshold, tree |-> tree, others |-> others] :
        pid \in TargetPids, command \in TargetCommands, n \in TargetPtyCounts,
        f \in TargetFacts, threshold \in Thresholds, tree \in Trees,
        others \in OtherEntries}

\* The process map of an input, and what the OS answers about its entries.
MapOf(i) ==
    <<i.proc>> \o [k \in 1..Len(i.others) |-> i.others[k].proc]

FactsOf(i) ==
    <<i.facts>> \o [k \in 1..Len(i.others) |-> i.others[k].facts]

\* safety.py imports psutil unconditionally: where the classifier runs, psutil
\* is there.
InitClassify ==
    /\ config = [auto_kill_threshold |-> 0]
    /\ world = <<>>
    /\ has_psutil = TRUE
    /\ pidFile = <<>>
    /\ dpc = [d \in DaemonPids |-> "none"]
    /\ nCalls = 0
    /\ InitFiles
    /\ InitProcs
    /\ inp \in {<<i>> : i \in ClassifyInputs}
    /\ out = <<>>

idleVars ==
    <<envVars, pidFile, fileVars, procVars, callerVars, lastRead, sigLog, nCalls,
      nScans, lastStart>>

\* is_safe_to_kill(pid, proc, threshold) is called on the input.
CallIsSafeToKill ==
    /\ out = <<>>
    /\ LET i == inp[1]
           r == is_safe_to_kill(i.pid, i.proc, i.threshold, i.facts,
                                CHOOSE p \in OurPid : TRUE,
                                i.tree.parentOf, i.tree.lookup)
       IN  out' = <<[fn |-> "is_safe_to_kill", safe |-> r.safe, reason |-> r.reason]>>
    /\ UNCHANGED <<idleVars, inp>>

\* get_suspected_leaks(processes, threshold) is called on the input's map.
CallGetSuspectedLeaks ==
    /\ out = <<>>
    /\ LET i == inp[1]
       IN  out' = <<[fn |-> "get_suspected_leaks",
                     leaks |-> get_suspected_leaks(MapOf(i), i.threshold,
                                                   FactsOf(i), has_psutil)]>>
    /\ UNCHANGED <<idleVars, inp>>

NextClassify ==
    \/ CallIsSafeToKill
    \/ CallGetSuspectedLeaks

SpecClassify ==
    InitClassify /\ [][NextClassify]_vars

(***************************************************************************)
(* is_system_critical(pid) as a function of the pid and of what psutil     *)
(* answers about its owner and name.                                       *)
(***************************************************************************)
CriticalPids ==
    {1, 50, 99, 100, 101, 400}

CriticalOwners ==
    {<<>>} \cup
    {<<user, name>> : user \in {"root", "user"}, name \in DOMAIN NameLower}

InitCritical ==
    /\ config = [auto_kill_threshold |-> 0]
    /\ world = <<>>
    /\ has_psutil = TRUE
    /\ pidFile = <<>>
    /\ dpc = [d \in DaemonPids |-> "none"]
    /\ nCalls = 0
    /\ InitFiles
    /\ InitProcs
    /\ inp \in {<<[pid |-> pid, facts |-> OsFacts("none", "running", <<200>>, owner)]>> :
                    pid \in CriticalPids, owner \in CriticalOwners}
    /\ out = <<>>

\* is_system_critical(pid) is called on the input.
CallIsSystemCritical ==
    /\ out = <<>>
    /\ out' = <<[fn |-> "is_system_critical",
                 critical |-> is_system_critical(inp[1].pid, inp[1].facts)]>>
    /\ UNCHANGED <<idleVars, inp>>

NextCritical ==
    CallIsSystemCritical

SpecCritical ==
    InitCritical /\ [][NextCritical]_vars

(***************************************************************************)
(* The parser: parse_lsof_output on a text of up to MaxLines lines.  A     *)
(* line is [tag, val]: "p" with a pid, "R" with a parent pid, "c" with a   *)
(* command, "n" with a path ([tty, path]: only a path under /dev/ttys is a *)
(* PTY path), "x" for any line with another first letter.                  *)
(***************************************************************************)
LsofLines ==
    {[tag |-> "p", val |-> pid] : pid \in {0, 7, 8}} \cup
    {[tag |-> "R", val |-> 1],
     [tag |-> "c", val |-> CmdBash[1]],
     [tag |-> "n", val |-> [tty |-> TRUE, path |-> 1]],
     [tag |-> "n", val |-> [tty |-> TRUE, path |-> 2]],
     [tag |-> "n", val |-> [tty |-> FALSE, path |-> 3]],
     [tag |-> "x", val |-> 0]}

\* Texts of 0..n lines.
RECURSIVE LsofTexts(_)
LsofTexts(n) ==
    IF n = 0 THEN {<<>>}
    ELSE LsofTexts(n - 1) \cup
         {Append(t, l) : t \in {u \in LsofTexts(n - 1) : Len(u) = n - 1},
                         l \in LsofLines}

\* `pid in processes`
HasPid(processes, pid) ==
    \E i \in 1..Len(processes) : processes[i].pid = pid

\* `if current_pid and current_pid in processes`: None and 0 are falsy.
OpenRecord(st) ==
    /\ st.current_pid # <<>>
    /\ st.current_pid[1] # 0
    /\ HasPid(st.processes, st.current_pid[1])

\* One turn of the loop over output.splitlines(); st is
\* [processes, current_pid].
ParseLine(st, line) ==
    LET Update(f(_)) ==
            [st EXCEPT !.processes =
                [i \in 1..Len(st.processes) |->
                    IF st.processes[i].pid = st.current_pid[1]
                    THEN f(st.processes[i]) ELSE st.processes[i]]]
        SetParent(r) == [r EXCEPT !.parent_pid = <<line.val>>]
        SetCommand(r) == [r EXCEPT !.command = <<line.val>>]
        AddPty(r) == [r EXCEPT !.ptys = Append(@, line.val.path)]
    IN  IF line.tag = "p"
        THEN [current_pid |-> <<line.val>>,
              processes |-> IF HasPid(st.processes, line.val) THEN st.processes
                            ELSE Append(st.processes,
                                        PTYProcess(line.val, <<>>, <<>>, <<>>))]
        ELSE IF line.tag = "R"
        THEN (IF OpenRecord(st) THEN Update(SetParent) ELSE st)
        ELSE IF line.tag = "c"
        THEN (IF OpenRecord(st) THEN Update(SetCommand) ELSE st)
        ELSE IF line.tag = "n" /\ line.val.tty
        THEN (IF OpenRecord(st) THEN Update(AddPty) ELSE st)
        ELSE st

RECURSIVE ParseFrom(_, _, _)
ParseFrom(lines, i, st) ==
    IF i > Len(lines) THEN st
    ELSE ParseFrom(lines, i + 1, ParseLine(st, lines[i]))

\* parse_lsof_output(output): the process map, in insertion order.
parse_lsof_output(lines) ==
    ParseFrom(lines, 1, [processes |-> <<>>, current_pid |-> <<>>]).processes

InitParse ==
    /\ config = [auto_kill_threshold |-> 0]
    /\ world = <<>>
    /\ has_psutil = TRUE
    /\ pidFile = <<>>
    /\ dpc = [d \in DaemonPids |-> "none"]
    /\ nCalls = 0
    /\ InitFiles
    /\ InitProcs
    /\ inp \in {<<[lines |-> t]>> : t \in LsofTexts(MaxLines)}
    /\ out = <<>>

\* parse_lsof_output(output) is called on the input.
CallParseLsofOutput ==
    /\ out = <<>>
    /\ out' = <<[fn |-> "parse_lsof_output",
                 processes |-> parse_lsof_output(inp[1].lines)]>>
    /\ UNCHANGED <<idleVars, inp>>

NextParse ==
    CallParseLsofOutput

SpecParse ==
    InitParse /\ [][NextParse]_vars

(***************************************************************************)
(* status(): one call against a host with or without a PID file and a      *)
(* cache file, at a given clock reading.  Time is counted in ticks.         *)
(***************************************************************************)
\* Live processes of another user: os.kill(pid, 0) by the caller raises
\* PermissionError (EPERM), an OSError.
ForeignPids ==
    {700}

\* A process with this pid exists.
Exists(pid) ==
    Alive(dpc, pid) \/ pid \in ForeignPids

StaleMultiple ==
    2

\* status(): the dict returned.  The keys of the cache are there or not
\* (sequences of length 0 or 1); `now` and `mtime` are clock readings in ticks.
status(now, mtime) ==
    LET r == is_running
        base == [fn |-> "status", running |-> r.running, pid |-> r.pid,
                 cache_age_seconds |-> <<>>, cache_stale |-> <<>>,
                 scan_count |-> <<>>, cache_error |-> <<>>]
        cache_age == now - mtime
    IN  IF r.running /\ cacheFile.exists
        THEN LET aged == [base EXCEPT
                            !.cache_age_seconds = <<cache_age \div TicksPerSecond>>,
                            !.cache_stale =
                                <<cache_age > config.scan_interval * StaleMultiple
                                                * TicksPerSecond>>]
             IN  IF ReadCache.data = <<>>    \* json.loads raises
                 THEN [aged EXCEPT !.cache_error = <<TRUE>>]
                 ELSE [aged EXCEPT !.scan_count = <<ReadCache.data[1].scan_number>>]
        ELSE base

ScanIntervals ==
    {1, 2}

\* The host of a status() call: no PID file; a PID file that names a pid no
\* process has, a dead daemon, a daemon in its sleep, or a process of another
\* user.
StatusHosts ==
    {[pidFile |-> <<>>, at |-> "none"],
     [pidFile |-> <<999>>, at |-> "none"],
     [pidFile |-> <<101>>, at |-> "dead"],
     [pidFile |-> <<101>>, at |-> "sleep"],
     [pidFile |-> <<700>>, at |-> "none"]}

InitStatus ==
    /\ config \in {[auto_kill_threshold |-> 0, scan_interval |-> s] :
                      s \in ScanIntervals}
    /\ world = <<>>
    /\ has_psutil = TRUE
    /\ \E h \in StatusHosts :
        /\ pidFile = h.pidFile
        /\ dpc = [d \in DaemonPids |-> IF d = 101 THEN h.at ELSE "none"]
        /\ running = [d \in DaemonPids |-> d = 101 /\ h.at = "sleep"]
    /\ scan_count = [d \in DaemonPids |-> 0]
    /\ cyc = [d \in DaemonPids |-> <<>>]
    /\ fd = [d \in DaemonPids |-> "closed"]
    /\ cpc = [c \in Callers |-> "idle"]
    /\ cloc = [c \in Callers |-> IdleLoc]
    /\ cres = [c \in Callers |-> <<>>]
    /\ sigLog = {}
    /\ lastStart = <<>>
    /\ nScans = 0
    /\ nCalls = 0
    /\ tmpFile = NoFile
    /\ lastRead = NoFile
    /\ cacheFile \in {NoFile, EmptyFile,
                      [exists |-> TRUE,
                       data |-> <<CacheData(101, 1, <<>>, <<>>, <<>>, <<>>)>>]}
    /\ inp \in {<<[now |-> mtime + age, mtime |-> mtime]>> :
                   mtime \in {0, 3}, age \in 0..MaxAge}
    /\ out = <<>>

\* status() is called: is_running() (which deletes a PID file whose pid it
\* cannot signal) and the look at the cache file.
CallStatus ==
    /\ out = <<>>
    /\ out' = <<status(inp[1].now, inp[1].mtime)>>
    /\ pidFile' = IF is_running.unlink THEN <<>> ELSE pidFile
    /\ UNCHANGED <<envVars, fileVars, procVars, callerVars, lastRead, sigLog,
                   nCalls, nScans, lastStart, inp>>

NextStatus ==
    CallStatus

SpecStatus ==
    InitStatus /\ [][NextStatus]_vars

(***************************************************************************)
(* The thresholds: the classifier and the query helpers on one process of  *)
(* every PTY count up to MaxPtys, for several base thresholds, with the    *)
(* protective and the positive checks mostly undecided.                    *)
(***************************************************************************)
BaseThresholds ==
    {1, 4, 5, 6}

ThresholdCommands ==
    {CmdNone, CmdEmpty, CmdBash, CmdCopilot, CmdNodeCopilot}

\* A running process of a normal user without a terminal, whose parent is
\* pid 200 or init; the same with a terminal; a zombie.
ThresholdFacts ==
    {OsFacts("none", "running", <<200>>, <<"user", "bash">>),
     OsFacts("none", "running", <<1>>, <<"user", "bash">>),
     OsFacts("tty", "running", <<200>>, <<"user", "bash">>),
     OsFacts("none", "zombie", <<200>>, <<"user", "bash">>)}

\* The caller (pid 300) is a child of init.
ThresholdTree ==
    [parentOf |-> (300 :> <<1>>) @@ (1 :> <<>>), ancestors |-> {1}, lookup |-> "ok"]

ThresholdInputs ==
    {[pid |-> 400, proc |-> PTYProcess(400, command, Ptys(n), <<1>>),
      facts |-> f, threshold |-> threshold, tree |-> ThresholdTree,
      others |-> others] :
        command \in ThresholdCommands, n \in 0..MaxPtys, f \in ThresholdFacts,
        threshold \in BaseThresholds, others \in OtherEntries}

InitThreshold ==
    /\ config = [auto_kill_threshold |-> 0]
    /\ world = <<>>
    /\ has_psutil = TRUE
    /\ pidFile = <<>>
    /\ dpc = [d \in DaemonPids |-> "none"]
    /\ nCalls = 0
    /\ InitFiles
    /\ InitProcs
    /\ inp \in {<<i>> : i \in ThresholdInputs}
    /\ out = <<>>

\* get_heavy_users(processes, threshold) is called on the input's map.
CallGetHeavyUsers ==
    /\ out = <<>>
    /\ LET i == inp[1]
       IN  out' = <<[fn |-> "get_heavy_users",
                     heavy |-> get_heavy_users(MapOf(i), i.threshold)]>>
    /\ UNCHANGED <<idleVars, inp>>

NextThreshold ==
    \/ CallIsSafeToKill
    \/ CallGetSuspectedLeaks
    \/ CallGetHeavyUsers

SpecThreshold ==
    InitThreshold /\ [][NextThreshold]_vars

(***************************************************************************)
(* The cleanup actor: kill_processes is called on a list of pids, and once *)
(* more on the same list, against a host that answers each os.kill.        *)
(***************************************************************************)
KillPids ==
    {500, 600}

\* Lists of pids of length 0..n.
RECURSIVE PidLists(_)
PidLists(n) ==
    IF n = 0 THEN {<<>>}
    ELSE PidLists(n - 1) \cup
         {Append(l, p) : l \in {m \in PidLists(n - 1) : Len(m) = n - 1}, p \in KillPids}

\* What the host holds under a pid: a process of the caller's user ("mine"),
\* a process of another user ("foreign"), or nothing ("dead").
KillHosts ==
    [KillPids -> {"mine", "foreign", "dead"}]

\* os.kill(pid, signal.SIGTERM): kill(2) delivers the signal, or fails with
\* ESRCH (ProcessLookupError) or EPERM (PermissionError).
OsSignal(host, pid) ==
    IF host[pid] = "dead" THEN "gone"
    ELSE IF host[pid] = "foreign" THEN "denied"
    ELSE "delivered"

\* The host after a signal: a process in `dies` ends on SIGTERM at once, any
\* other process is still there at the next turn.
AfterSignal(host, pid, dies) ==
    IF OsSignal(host, pid) = "delivered" /\ pid \in dies
    THEN [host EXCEPT ![pid] = "dead"]
    ELSE host

\* The answers of the host to os.kill on pids[i..], and the host afterwards.
RECURSIVE Answers(_, _, _, _, _)
Answers(pids, i, host, dies, acc) ==
    IF i > Len(pids) THEN [outcome |-> acc, host |-> host]
    ELSE Answers(pids, i + 1, AfterSignal(host, pids[i], dies), dies,
                 Append(acc, OsSignal(host, pids[i])))

KillInputs ==
    {[pids |-> pids, host |-> host, dies |-> dies] :
        pids \in PidLists(MaxPids), host \in KillHosts, dies \in SUBSET KillPids}

InitKill ==
    /\ config = [auto_kill_threshold |-> 0]
    /\ world = <<>>
    /\ has_psutil = TRUE
    /\ pidFile = <<>>
    /\ dpc = [d \in DaemonPids |-> "none"]
    /\ nCalls = 0
    /\ InitFiles
    /\ InitProcs
    /\ inp \in {<<i>> : i \in KillInputs}
    /\ out = <<>>

\* The record of one call of kill_processes(pids) on `host`; `first` is the
\* dict an earlier call on the same list returned.
KillCall(pids, host, dies, first) ==
    LET a == Answers(pids, 1, host, dies, <<>>)
        r == kill_processes(pids, a.outcome)
    IN  [fn |-> "kill_processes", outcome |-> a.outcome, results |-> r.results,
         tried |-> r.tried, raised |-> r.raised, before |-> host,
         after |-> a.host, first |-> first]

\* kill_processes(pids) is called on the input.
CallKillProcesses ==
    /\ out = <<>>
    /\ out' = <<KillCall(inp[1].pids, inp[1].host, inp[1].dies, <<>>)>>
    /\ UNCHANGED <<idleVars, inp>>

\* kill_processes(pids) is called a second time, on the host the first call
\* left.
CallKillProcessesAgain ==
    /\ out # <<>>
    /\ out[1].first = <<>>
    /\ out' = <<KillCall(inp[1].pids, out[1].after, inp[1].dies,
                         <<out[1].results>>)>>
    /\ UNCHANGED <<idleVars, inp>>

NextKill ==
    \/ CallKillProcesses
    \/ CallKillProcessesAgain

SpecKill ==
    InitKill /\ [][NextKill]_vars

(***************************************************************************)
(* Properties of the classifier and the queries                            *)
(***************************************************************************)
IsSafeToKillDone ==
    out # <<>> /\ out[1].fn = "is_safe_to_kill"

\* C2: is_safe_to_kill(pid, snapshot, threshold) returns safe=false, for every
\* snapshot and every threshold, when pid is the caller's own pid or a pid on
\* the caller's ancestor chain up to the root, and when the ancestor lookup
\* itself fails.
C2_OwnTreeNeverSafe ==
    IsSafeToKillDone =>
        LET i == inp[1]
        IN  (\/ i.pid \in OurPid
             \/ i.pid \in i.tree.ancestors
             \/ i.tree.lookup \in LookupErrors)
            => ~out[1].safe

\* A grandparent of the caller that is a zombie without a terminal, holding 21
\* PTYs, is refused because of the ancestor chain.
C2_Witness ==
    /\ IsSafeToKillDone
    /\ inp[1].pid = 150
    /\ inp[1].tree.lookup = "ok"
    /\ 150 \in inp[1].tree.ancestors
    /\ inp[1].facts.term = "none"
    /\ inp[1].facts.status = "zombie"
    /\ pty_count(inp[1].proc) = 21
    /\ ~out[1].safe
    /\ out[1].reason = "ancestor chain"

\* The target is system-critical as the allow-list reads: a pid below the
\* cutoff, or a root-owned process whose name is an entry of the list; an
\* unresolved lookup counts as critical.
OnCriticalList(pid, f) ==
    \/ pid < LowPidCutoff
    \/ f.owner = <<>>
    \/ f.owner[1] = "root" /\ f.owner[2] \in CRITICAL_SYSTEM_PROCESSES

\* C4: if a Layer-1 condition holds for the target (own pid, ancestor, active
\* controlling terminal, system-critical) or the OS lookup behind one of these
\* checks is unresolved, is_safe_to_kill returns safe=false, also for a zombie,
\* an orphan with more than one PTY or a PTY count above every threshold.
C4_Layer1AlwaysProtects ==
    IsSafeToKillDone =>
        LET i == inp[1]
        IN  (\/ i.pid \in OurPid
             \/ i.pid \in i.tree.ancestors
             \/ i.tree.lookup \in LookupErrors
             \/ i.facts.term \in {"tty"} \cup LookupErrors
             \/ OnCriticalList(i.pid, i.facts))
            => ~out[1].safe

\* The snapshots of the map that the classifier finds safe to kill, in map
\* order.
ClassifierSafe(i) ==
    PickFrom(MapOf(i),
             {k \in 1..Len(MapOf(i)) :
                is_safe_to_kill(MapOf(i)[k].pid, MapOf(i)[k], i.threshold,
                                FactsOf(i)[k], CHOOSE p \in OurPid : TRUE,
                                i.tree.parentOf, i.tree.lookup).safe}, 1)

\* C5: for every process map and every threshold, get_suspected_leaks returns
\* exactly the snapshots for which is_safe_to_kill(p.pid, p, threshold) returns
\* safe=true.
C5_LeaksAreClassifierSafe ==
    (out # <<>> /\ out[1].fn = "get_suspected_leaks")
        => out[1].leaks = ClassifierSafe(inp[1])

(***************************************************************************)
(* Properties of the scan cycle                                            *)
(***************************************************************************)
SeqRange(q) ==
    {q[i] : i \in 1..Len(q)}

\* The snapshots a cycle has built or a file holds.
Snapshots ==
    UNION {SeqRange(cyc[d]) : d \in DaemonPids}
        \cup SeqRange(tmpFile.data) \cup SeqRange(cacheFile.data)

\* The pids whose controlling-terminal lookup answers a terminal, or fails.
TerminalOrUnknown ==
    {world[i].proc.pid : i \in {k \in 1..Len(world) :
        world[k].facts.term \in {"tty"} \cup LookupErrors}}

\* C1: in every daemon cycle no termination signal is sent to a process that
\* has an active controlling terminal or whose controlling-terminal status
\* cannot be determined, and such a process is never in suspected_leaks or
\* auto_killed, whatever its command and PTY count.
C1_TerminalHoldersUntouched ==
    /\ \A s \in sigLog : s.to \notin TerminalOrUnknown
    /\ \A x \in Snapshots :
        /\ \A i \in 1..Len(x.suspected_leaks) :
              x.suspected_leaks[i].pid \notin TerminalOrUnknown
        /\ \A i \in 1..Len(x.auto_killed) :
              x.auto_killed[i] \notin TerminalOrUnknown

\* C3: in every cache snapshot written by a daemon instance auto_killed does
\* not contain that daemon's own pid, and the daemon never sends a termination
\* signal to itself, whatever the scan reports for the daemon's pid and
\* whatever auto_kill_threshold is configured.
C3_DaemonSparesItself ==
    /\ \A s \in sigLog : s.by # s.to
    /\ \A x \in Snapshots : x.writer \notin SeqRange(x.auto_killed)

(***************************************************************************)
(* Properties of the lifecycle                                             *)
(***************************************************************************)
\* C6: for a given PID file, at every moment at most one daemon background
\* process is running the scan loop, under any interleaving of start() and
\* stop() calls and of the children's own steps.
C6_AtMostOneLoop ==
    Cardinality({d \in DaemonPids : InLoop(d)}) <= 1

\* C7: when start() is called twice with no stop() in between, the second call
\* reports failure "already running" with the pid of the daemon the first call
\* spawned, and spawns no second background process.  A call has `prior` set
\* when it began after a start() had reported a daemon that is still alive,
\* with no stop() since.
C7_SecondStartRefused ==
    \A c \in Callers :
        /\ cloc[c].prior = <<>>
        /\ (cres[c] # <<>> /\ cres[c][1].prior # <<>>)
            => /\ ~cres[c][1].success
               /\ cres[c][1].error = "already running"
               /\ cres[c][1].pid = cres[c][1].prior
               /\ cres[c][1].child = <<>>

\* C8: when the PID file names a pid with no live process, is_running()
\* reports (not running, no pid) and deletes the file, and a start() in that
\* state succeeds and yields exactly one running daemon instance, whose pid is
\* in the PID file once the instance runs its loop.
C8_StaleFileDiscarded ==
    \A c \in Callers :
        /\ (cloc[c].stale /\ cpc[c] = "spawn")
            => /\ cloc[c].pid = <<>>
               /\ pidFile = <<>>
        /\ (cloc[c].stale /\ cpc[c] = "poll")
            => /\ cloc[c].pid = <<>>
               /\ pidFile \in {<<>>, cloc[c].child}
               /\ InLoop(cloc[c].child[1]) => pidFile = cloc[c].child
        /\ (cres[c] # <<>> /\ cres[c][1].stale /\ cres[c][1].op = "stop")
            => /\ ~cres[c][1].success
               /\ cres[c][1].error = "not running"
               /\ cres[c][1].pid = <<>>
               /\ pidFile = <<>>
        /\ (cres[c] # <<>> /\ cres[c][1].stale /\ cres[c][1].op = "start")
            => /\ cres[c][1].success
               /\ cres[c][1].child # <<>>
               /\ cres[c][1].pid = cres[c][1].child
               /\ {d \in DaemonPids : dpc[d] # "none"} = {cres[c][1].child[1]}
               /\ InLoop(cres[c][1].child[1]) => pidFile = cres[c][1].child

\* A start() that found a stale PID file has returned success, and the one
\* instance it spawned runs its loop with its pid in the PID file.
C8_Witness ==
    /\ cres["c1"] # <<>>
    /\ cres["c1"][1].stale
    /\ cres["c1"][1].op = "start"
    /\ cres["c1"][1].success
    /\ cres["c1"][1].pid = <<101>>
    /\ InLoop(101)
    /\ pidFile = <<101>>

\* C9: at every instant the cache file, if it exists, holds one complete
\* snapshot produced by a single finished cycle: a reader never observes a
\* partial file.
C9_CacheAlwaysComplete ==
    /\ cacheFile.exists => cacheFile.data # <<>>
    /\ ReadCache.exists => ReadCache.data # <<>>

\* One cycle: the step that takes a daemon from the scan to the cache write,
\* to the sleep or out of the loop.
CycleCounted(d) ==
    IF dpc[d] = "scan" /\ dpc'[d] \in {"open", "sleep", "cleanup"}
    THEN scan_count'[d] = scan_count[d] + 1
    ELSE Alive(dpc', d) => scan_count'[d] = scan_count[d]

\* Two consecutive, different reads of snapshots written by the same instance.
ReadsInOrder ==
    (/\ lastRead' # lastRead
     /\ lastRead.data # <<>>
     /\ lastRead'.data # <<>>
     /\ lastRead'.data[1].writer = lastRead.data[1].writer)
        => lastRead'.data[1].scan_number > lastRead.data[1].scan_number

\* C10: within one running daemon instance the scan counter increases by
\* exactly 1 per cycle (and the snapshot a cycle builds carries that count),
\* and the scan_number seen on consecutive reads of the cache never decreases
\* and strictly increases between two different written snapshots.
C10_ScanNumberCounts ==
    /\ [](\A d \in DaemonPids :
            cyc[d] # <<>> => cyc[d][1].scan_number = scan_count[d])
    /\ [][\A d \in DaemonPids : CycleCounted(d)]_vars
    /\ [][ReadsInOrder]_vars

\* The reader has seen the second snapshot of an instance that counts 2 cycles.
C10_Witness ==
    /\ lastRead.data # <<>>
    /\ lastRead.data[1].scan_number = 2
    /\ scan_count[lastRead.data[1].writer] = 2

(***************************************************************************)
(* Properties of stop()                                                    *)
(***************************************************************************)
\* A stop() of caller c that found the daemon running returns in this step.
StopReturns(c) ==
    /\ cloc[c].op = "stop"
    /\ cloc[c].pid # <<>>
    /\ cpc'[c] = "idle"

\* C11: a stop() that found the daemon running sends SIGTERM to the recorded
\* pid, sends SIGKILL only to a process still alive after the wait, and when it
\* returns the PID file no longer names that pid, on every path: also when the
\* process exited between the liveness probe and the signal.
C11_StopAlwaysRemovesPidFile ==
    [][\A c \in Callers :
          /\ (cpc[c] = "wait" /\ cpc'[c] = "kill9") => ProbeAlive(cloc[c].pid[1])
          /\ StopReturns(c) => pidFile' # cloc[c].pid]_vars

\* Daemon d is inside _scan_and_cache(): the loop test has passed and the cycle
\* has neither renamed its temporary file nor failed.
InCycle(d) ==
    dpc[d] \in {"scan", "open", "write", "rename"}

\* C12: SIGTERM and SIGINT only clear self.running, which is tested only at the
\* top of the loop, so a background process never ends inside a cycle it has
\* started, also when stop() is called while the cycle is in progress.
C12_StartedCycleCompletes ==
    [][\A d \in DaemonPids :
          InCycle(d) => dpc'[d] # "dead"]_vars

(***************************************************************************)
(* Properties of the loop's error handling                                 *)
(***************************************************************************)
\* C13: an exception raised during one iteration never leaves the loop: a
\* background process that is inside a cycle with no shutdown requested goes
\* on to the rest of the cycle or to the sleep, and leaves the sleep for the
\* next cycle; it reaches _cleanup only after a shutdown signal.
C13_ErrorsStayInIteration ==
    [][\A d \in DaemonPids :
          (Alive(dpc, d) /\ dpc'[d] = "cleanup" /\ dpc[d] # "cleanup")
              => ~running[d]]_vars

(***************************************************************************)
(* Properties of the cleanup actor                                         *)
(***************************************************************************)
\* The last turn of the loop for pids[i]: no later turn has the same pid.
LastTurn(pids, i) ==
    \A j \in (i + 1)..Len(pids) : pids[j] # pids[i]

\* C14: kill_processes(pids) calls os.kill for every pid of the list, whatever
\* the earlier outcomes, never raises, and returns a dict with an entry for each
\* pid that is True iff the signal (of the pid's last turn, if it is listed
\* twice) was delivered and False when the process was gone or the permission
\* denied; called twice on a pid no process has, it returns False both times.
C14_KillProcessesReportsEachPid ==
    out # <<>> =>
        LET o == out[1]
            pids == inp[1].pids
        IN  /\ ~o.raised
            /\ o.tried = pids
            /\ DOMAIN o.results = {pids[i] : i \in 1..Len(pids)}
            /\ \A i \in 1..Len(pids) :
                  LastTurn(pids, i) =>
                      /\ o.results[pids[i]] = (o.outcome[i] = "delivered")
                      /\ o.outcome[i] \in {"gone", "denied"} => ~o.results[pids[i]]
            /\ \A i \in 1..Len(pids) :
                  (inp[1].host[pids[i]] = "dead")
                      => /\ ~o.results[pids[i]]
                         /\ o.first # <<>> => ~o.first[1][pids[i]]

\* kill_processes has been called twice on a list whose first pid no process
\* has and whose second pid takes the signal: false both times for the first,
\* and the second was signalled all the same.
C14_Witness ==
    /\ out # <<>>
    /\ inp[1].pids = <<500, 600>>
    /\ inp[1].host[500] = "dead"
    /\ out[1].first # <<>>
    /\ ~out[1].first[1][500]
    /\ ~out[1].results[500]
    /\ out[1].first[1][600]
    /\ out[1].tried = <<500, 600>>

(***************************************************************************)
(* Properties of the auto-kill step                                        *)
(***************************************************************************)
\* The os.kill calls daemon d made in its cycle number n.
SignalsOf(d, n) ==
    {s \in sigLog : s.by = d /\ s.n = n}

Layers12Undecided(i) ==
    /\ ~is_in_own_tree(i.pid, CHOOSE p \in OurPid : TRUE, i.tree.parentOf,
                       i.tree.lookup)
    /\ ~has_controlling_terminal(i.facts)
    /\ ~is_system_critical(i.pid, i.facts)
    /\ ~is_zombie(i.facts)
    /\ ~(is_orphan(i.facts) /\ pty_count(i.proc) > 1)

\* The command of snapshot p contains "copilot".
NamesCopilot(p) ==
    /\ p.command # <<>>
    /\ Contains(Lower(p.command[1]), str_copilot)

\* C16: with base threshold 4 and no Layer-1 or Layer-2 check matching,
\* get_suspected_leaks returns a process whose command contains "copilot" iff
\* it holds more than 20 PTYs, and any other process iff it holds more than 12
\* PTYs (such a process with 13 PTYs is a heavy user too).
C16_LeakThresholdsAtBaseFour ==
    (out # <<>> /\ inp[1].threshold = 4 /\ Layers12Undecided(inp[1]))
        => LET p == inp[1].proc
           IN  /\ out[1].fn = "get_suspected_leaks"
                    => (p \in SeqRange(out[1].leaks))
                        = (pty_count(p) > (IF NamesCopilot(p) THEN 20 ELSE 12))
               /\ (out[1].fn = "get_heavy_users" /\ pty_count(p) = 13)
                    => p \in SeqRange(out[1].heavy)

\* C17: when Layers 1 and 2 are undecided, is_safe_to_kill flags a process
\* whose command matches the agent pattern safe only above 5 times the base
\* threshold and answers "within normal range" otherwise, and flags any other
\* process safe only above 3 times the base threshold and answers "below
\* threshold" otherwise.
C17_ClassifierMultiples ==
    (out # <<>> /\ out[1].fn = "is_safe_to_kill" /\ Layers12Undecided(inp[1]))
        => LET p == inp[1].proc
               t == inp[1].threshold
           IN  IF NamesCopilot(p)
               THEN /\ out[1].safe => pty_count(p) > 5 * t
                    /\ ~out[1].safe => out[1].reason = "within normal range"
               ELSE /\ out[1].safe => pty_count(p) > 3 * t
                    /\ ~out[1].safe => out[1].reason = "below threshold"

\* The verdict of the classifier on the target of input i, were its command
\* `command` and its PTY count n.
SafeAt(i, command, n) ==
    is_safe_to_kill(i.pid, PTYProcess(i.pid, command, Ptys(n), i.proc.parent_pid),
                    i.threshold, i.facts, CHOOSE p \in OurPid : TRUE,
                    i.tree.parentOf, i.tree.lookup).safe

\* The smallest PTY count at which the classifier flags that snapshot safe.
SmallestSafeCount(i, command) ==
    CHOOSE n \in 0..MaxPtys :
        /\ SafeAt(i, command, n)
        /\ \A m \in 0..(n - 1) : ~SafeAt(i, command, m)

\* C18: for every base threshold and two snapshots that differ only in that
\* one's command matches the agent heuristic, the smallest PTY count at which
\* the classifier flags the agent snapshot safe is strictly greater than the
\* smallest count at which it flags the other one safe (the counts are left
\* to the thresholds: no check of Layer 1 or 2 matches at any count).
C18_AgentNeedsMorePtys ==
    (/\ out # <<>>
     /\ out[1].fn = "is_safe_to_kill"
     /\ NamesCopilot(inp[1].proc)
     /\ Layers12Undecided([inp[1] EXCEPT !.proc.ptys = Ptys(MaxPtys)]))
        => \A command \in {c \in ThresholdCommands : ~NamesCopilot([command |-> c])} :
              SmallestSafeCount(inp[1], inp[1].proc.command)
                  > SmallestSafeCount(inp[1], command)

\* C19: get_heavy_users(processes, threshold) returns exactly the snapshots
\* whose pty_count is strictly greater than threshold, each once: a process
\* holding exactly threshold PTYs is excluded, none above it is omitted.
C19_HeavyUsersStrictlyAbove ==
    (out # <<>> /\ out[1].fn = "get_heavy_users")
        => LET all == SeqRange(MapOf(inp[1]))
               above == {p \in all : pty_count(p) > inp[1].threshold}
           IN  /\ SeqRange(out[1].heavy) = above
               /\ Len(out[1].heavy) = Cardinality(above)
               /\ \A p \in all :
                    pty_count(p) = inp[1].threshold => p \notin SeqRange(out[1].heavy)

\* get_heavy_users was called with threshold 4 on a map of a process holding
\* exactly 4 PTYs and one holding 13: only the second is returned.
C19_Witness ==
    /\ out # <<>>
    /\ out[1].fn = "get_heavy_users"
    /\ inp[1].threshold = 4
    /\ pty_count(inp[1].proc) = 4
    /\ Len(inp[1].others) = 1
    /\ out[1].heavy = <<inp[1].others[1].proc>>

(***************************************************************************)
(* Properties of status()                                                  *)
(***************************************************************************)
\* C20: status() reports running exactly when the PID file exists and names a
\* live process; when running and a cache file exists it reports the cache
\* stale iff the file's age exceeds 2 x scan_interval; when not running it
\* reports no pid and no cache fields.  (The PID file and the processes are
\* those of the moment of the call: the call itself changes no process.)
C20_StatusReportsRunningAndStaleness ==
    [][out' # out =>
         LET r == out'[1]
             age == inp[1].now - inp[1].mtime
         IN  /\ r.running = (pidFile # <<>> /\ Exists(pidFile[1]))
             /\ (r.running /\ cacheFile.exists)
                  => r.cache_stale =
                        <<age > 2 * config.scan_interval * TicksPerSecond>>
             /\ ~r.running
                  => /\ r.pid = <<>>
                     /\ r.cache_age_seconds = <<>>
                     /\ r.cache_stale = <<>>
                     /\ r.scan_count = <<>>
                     /\ r.cache_error = <<>>]_vars

(***************************************************************************)
(* Properties of the parser                                                *)
(***************************************************************************)
\* The pid of the most recent process-id line before line k, as <<pid>>, or
\* <<>> when there is none.
OwnerOf(lines, k) ==
    LET ps == {j \in 1..(k - 1) : lines[j].tag = "p"}
    IN  IF ps = {} THEN <<>>
        ELSE <<lines[CHOOSE j \in ps : \A m \in ps : m <= j].val>>

\* The lines of `lines` with tag `tag` that belong to pid, in order.
RECURSIVE OwnedFrom(_, _, _, _)
OwnedFrom(lines, k, pid, tag) ==
    IF k > Len(lines) THEN <<>>
    ELSE (IF lines[k].tag = tag /\ OwnerOf(lines, k) = <<pid>>
             /\ (tag = "n" => lines[k].val.tty)
          THEN <<lines[k].val>> ELSE <<>>)
         \o OwnedFrom(lines, k + 1, pid, tag)

\* The last element of a sequence, as an optional value.
LastOf(q) ==
    IF q = <<>> THEN <<>> ELSE <<q[Len(q)]>>

\* C21: parse_lsof_output attributes every parent-pid, command and PTY-path
\* line to the record opened by the most recent process-id line, for every pid
\* value, keeps each record's PTY paths in encounter order (pty_count is the
\* number of its path lines), and ignores every other line.
C21_ParserAttributesLines ==
    (out # <<>> /\ out[1].fn = "parse_lsof_output")
        => LET lines == inp[1].lines
               procs == out[1].processes
           IN  /\ {procs[i].pid : i \in 1..Len(procs)}
                    = {lines[k].val : k \in {j \in 1..Len(lines) : lines[j].tag = "p"}}
               /\ \A i \in 1..Len(procs) :
                    LET paths == OwnedFrom(lines, 1, procs[i].pid, "n")
                    IN  /\ procs[i].ptys = [k \in 1..Len(paths) |-> paths[k].path]
                        /\ pty_count(procs[i]) = Len(paths)
                        /\ procs[i].command
                             = LastOf(OwnedFrom(lines, 1, procs[i].pid, "c"))
                        /\ procs[i].parent_pid
                             = LastOf(OwnedFrom(lines, 1, procs[i].pid, "R"))

(***************************************************************************)
(* Properties of the inter-cycle sleep                                     *)
(***************************************************************************)
\* Daemon d is in time.sleep() and a signal has been handled during it.
SignalledAsleep(d) ==
    dpc[d] \in {"sleep", "sleeping"} /\ ~running[d]

\* C22: a shutdown signal that arrives during the inter-cycle sleep ends the
\* sleep: from there no more of the interval passes and no scan starts; the
\* daemon's next step is the shutdown.
C22_SignalEndsSleep ==
    [][\A d \in DaemonPids :
          SignalledAsleep(d) => dpc'[d] \in {dpc[d], "cleanup"}]_vars

\* The half of C22 that does not depend on time: after a signal during the
\* sleep no scan starts.
C22_NoScanAfterSignal ==
    [][\A d \in DaemonPids : SignalledAsleep(d) => dpc'[d] # "scan"]_vars

(***************************************************************************)
(* Properties of is_system_critical                                        *)
(***************************************************************************)
\* C23: is_system_critical(pid) is true for every pid below 100, for every
\* root-owned process whose name is an entry of the allow-list, and whenever
\* the lookup fails; it is false for a pid of 100 or more that is not owned by
\* root, whatever its name.
C23_SystemCritical ==
    (out # <<>> /\ out[1].fn = "is_system_critical")
        => LET pid == inp[1].pid
               owner == inp[1].facts.owner
               critical == out[1].critical
           IN  /\ pid < 100 => critical
               /\ owner = <<>> => critical
               /\ (owner # <<>> /\ owner[1] = "root"
                    /\ owner[2] \in CRITICAL_SYSTEM_PROCESSES) => critical
               /\ (pid >= 100 /\ owner # <<>> /\ owner[1] # "root") => ~critical

(***************************************************************************)
(* Properties of the classifier's positive indicators                      *)
(***************************************************************************)
\* No Layer-1 check of is_safe_to_kill matches input i.
NoLayer1Match(i) ==
    /\ i.pid \notin OurPid
    /\ ~is_in_own_tree(i.pid, CHOOSE p \in OurPid : TRUE, i.tree.parentOf,
                       i.tree.lookup)
    /\ ~has_controlling_terminal(i.facts)
    /\ ~is_system_critical(i.pid, i.facts)

\* What the Layer-3 thresholds say about input i: more than 10 PTYs for a
\* command that names copilot, more than twice the threshold otherwise.
Layer3Safe(i) ==
    IF NamesCopilot(i.proc) THEN pty_count(i.proc) > 10
    ELSE pty_count(i.proc) > 2 * i.threshold

\* C24: when no Layer-1 check matches, is_safe_to_kill returns safe=true for a
\* zombie whatever its PTY count and command, and for an orphan (parent pid 1)
\* with more than one PTY; an orphan with at most one PTY is not flagged as an
\* orphan, and unless it is a zombie the Layer-3 thresholds decide.
C24_ZombieAndOrphanRules ==
    IsSafeToKillDone =>
        LET i == inp[1]
            n == pty_count(i.proc)
        IN  NoLayer1Match(i) =>
              /\ i.facts.status = "zombie" =>
                    out[1].safe /\ out[1].reason = "zombie"
              /\ (i.facts.ppid = <<1>> /\ n > 1) => out[1].safe
              /\ (i.facts.ppid = <<1>> /\ n <= 1) => out[1].reason # "orphan"
              /\ (i.facts.ppid = <<1>> /\ n <= 1 /\ i.facts.status # "zombie") =>
                    /\ out[1].safe = Layer3Safe(i)
                    /\ out[1].reason \in {"copilot excessive", "within normal range",
                                         "heavy user", "below threshold"}

\* An orphan running bash with two PTYs, far below every Layer-3 threshold, is
\* safe to kill because of the orphan rule.
C24_Witness ==
    /\ IsSafeToKillDone
    /\ NoLayer1Match(inp[1])
    /\ inp[1].facts.ppid = <<1>>
    /\ inp[1].facts.status = "running"
    /\ pty_count(inp[1].proc) = 2
    /\ inp[1].threshold = 6
    /\ inp[1].proc.command = CmdBash
    /\ out[1].safe
    /\ out[1].reason = "orphan"

\* An orphan with one PTY is left to Layer 3, which refuses it.
C24_WitnessOnePty ==
    /\ IsSafeToKillDone
    /\ NoLayer1Match(inp[1])
    /\ inp[1].facts.ppid = <<1>>
    /\ inp[1].facts.status = "running"
    /\ pty_count(inp[1].proc) = 1
    /\ ~out[1].safe
    /\ out[1].reason = "below threshold"

(***************************************************************************)
(* Properties of the scan counter across restarts                          *)
(***************************************************************************)
\* Daemon d writes the snapshot of its cycle in this step.
WritesSnapshot(d) ==
    dpc[d] = "write" /\ dpc'[d] = "rename"

\* The cache file holds a snapshot that daemon d wrote.
HasOwnSnapshot(d) ==
    cacheFile.exists /\ cacheFile.data # <<>> /\ cacheFile.data[1].writer = d

\* C25: the first cache snapshot a started or restarted instance writes has
\* scan_number 1, whatever scan_number a previous instance left in the cache
\* file.
C25_FirstSnapshotIsOne ==
    [][\A d \in DaemonPids :
          (WritesSnapshot(d) /\ ~HasOwnSnapshot(d))
              => cyc[d][1].scan_number = 1]_vars

\* C25, amended: the counter starts afresh and counts the cycles the instance
\* has begun, failed ones included: the snapshot its n-th cycle writes has
\* scan_number n (1 for the first cycle), whatever the cache file held.
C25_SnapshotNumberIsCycleNumber ==
    [][\A d \in DaemonPids :
          WritesSnapshot(d) => cyc[d][1].scan_number = nScans]_vars

\* The restarted instance has written the snapshot of its first cycle, with
\* scan_number 1, while the cache file still holds the previous instance's
\* snapshot with scan_number 7.
C25_Witness ==
    /\ dpc[101] = "rename"
    /\ nScans = 1
    /\ tmpFile.exists
    /\ tmpFile.data # <<>>
    /\ tmpFile.data[1].writer = 101
    /\ tmpFile.data[1].scan_number = 1
    /\ cacheFile.exists
    /\ cacheFile.data[1].writer = 102
    /\ cacheFile.data[1].scan_number = 7

(***************************************************************************)
(* Properties of the shutdown by signal                                    *)
(***************************************************************************)
\* Daemon d has written its PID file, and a signal has reached it since.
SignalledAfterPidFile(d) ==
    dpc[d] \notin {"none", "boot"} /\ ~running[d]

\* Daemon d has exited and the PID file is gone.
StoppedClean(d) ==
    dpc[d] = "dead" /\ pidFile = <<>>

\* C26: once the background process has written its PID file, a terminate or
\* interrupt signal delivered at any later point leads to the daemon deleting
\* the PID file and exiting.
C26_SignalLeadsToCleanExit ==
    \A d \in DaemonPids : SignalledAfterPidFile(d) ~> StoppedClean(d)

\* The same for signals that arrive once the handlers are installed.
C26_HandledSignalLeadsToCleanExit ==
    \A d \in DaemonPids :
        (SignalledAfterPidFile(d) /\ dpc[d] # "dead") ~> StoppedClean(d)

(***************************************************************************)
(* Properties of the cycle's termination                                   *)
(***************************************************************************)
\* Daemon d has begun a cycle (lsof has been invoked) and has not ended it.
CycleBegun(d) ==
    dpc[d] \in {"hung", "open", "write", "rename"}

\* Daemon d is past the cycle: at the sleep before the next flag check, in
\* the cleanup, or gone.
CycleEnded(d) ==
    dpc[d] \in {"sleep", "cleanup", "dead"}

\* C27: every scan cycle terminates: also with a tool that never returns, a
\* cycle that has begun ends and the daemon reaches the next flag check.
C27_EveryCycleTerminates ==
    \A d \in DaemonPids : CycleBegun(d) ~> CycleEnded(d)

\* The same for the cycles in which the tool has returned.
C27_CycleAfterScanTerminates ==
    \A d \in DaemonPids : (CycleBegun(d) /\ dpc[d] # "hung") ~> CycleEnded(d)

(***************************************************************************)
(* Properties of the snapshot's contents                                   *)
(***************************************************************************)
\* The sum of the pty_count fields of the entries from position i on.
RECURSIVE SumCounts(_, _)
SumCounts(entries, i) ==
    IF i > Len(entries) THEN 0
    ELSE entries[i].pty_count + SumCounts(entries, i + 1)

\* The entries of a snapshot's processes list, without their ptys.
BriefEntries(x) ==
    [i \in 1..Len(x.processes) |->
        [pid |-> x.processes[i].pid, command |-> x.processes[i].command,
         pty_count |-> x.processes[i].pty_count]]

\* A snapshot that is consistent in itself.
SnapshotConsistent(x) ==
    LET MoreThanFour(e) == e.pty_count > 4
    IN  /\ x.process_count = Len(x.processes)
        /\ x.total_ptys = SumCounts(x.processes, 1)
        /\ x.heavy_users = SelectSeq(BriefEntries(x), MoreThanFour)
        /\ SeqRange(x.suspected_leaks) \subseteq SeqRange(BriefEntries(x))
        /\ SeqRange(x.auto_killed)
              \subseteq {l.pid : l \in SeqRange(x.suspected_leaks)}

\* C28: in every cache snapshot written, process_count is the number of
\* entries in processes, total_ptys the sum of their pty_count, heavy_users
\* exactly the scanned processes with pty_count > 4, every suspected leak a
\* process of the same scan, and every auto_killed pid a suspected leak.
C28_SnapshotConsistent ==
    \A x \in Snapshots \cup SeqRange(lastRead.data) : SnapshotConsistent(x)

\* The cache file holds a snapshot of two processes, of 13 and 5 PTYs: both are
\* heavy users, one is a suspected leak and was killed.
C28_Witness ==
    /\ cacheFile.exists
    /\ cacheFile.data # <<>>
    /\ cacheFile.data[1].process_count = 2
    /\ cacheFile.data[1].total_ptys = 18
    /\ Len(cacheFile.data[1].heavy_users) = 2
    /\ Len(cacheFile.data[1].suspected_leaks) = 1
    /\ cacheFile.data[1].auto_killed = <<500>>

(***************************************************************************)
(* Properties of the auto-kill floor                                       *)
(***************************************************************************)
\* The snapshots the scan yields for pid on this host.
ScannedAs(pid) ==
    {world[i].proc : i \in {k \in 1..Len(world) : world[k].proc.pid = pid}}

StopTargets(d) ==
    \E c \in Callers : cloc[c].op = "stop" /\ cloc[c].pid = <<d>>

\* C30: whenever a daemon instance has written its PID file and is running its
\* loop, and no stop() targeting it is in progress, the PID file exists and
\* holds that instance's pid.
C30_PidFileNamesRunningInstance ==
    \A d \in DaemonPids :
        (InLoop(d) /\ ~StopTargets(d)) => pidFile = <<d>>

====
